---- MODULE Spec2Model ----
(***************************************************************************)
(* Model of the search-page crawler of gmaps-extractor-apify:              *)
(*   - the wire decoder  parseSearchPlacesResponseBody / parseJsonResult   *)
(*   - the response handler  enqueuePlacesFromResponse                     *)
(*   - the scroll loop  enqueueAllPlaceDetails                             *)
(* Response bodies are texts made of lexical pieces (whitespace, the XSSI  *)
(* guard, the trailing comment marker, an HTML marker, plain text, the     *)
(* text of a JSON value); JSON values are trees.                           *)
(***************************************************************************)
EXTENDS Integers, Sequences, FiniteSets, TLC

(***************************************************************************)
(* JSON values.  An array keeps its length and its non-null elements (all  *)
(* other slots below the length are null); an object keeps its fields.     *)
(***************************************************************************)
JUndef == [t |-> "undef"]
JNull == [t |-> "null"]
JNum(n) == [t |-> "num", n |-> n]
JBool(b) == [t |-> "bool", b |-> b]
JStr(s) == [t |-> "str", s |-> s]
JArr(len, el) == [t |-> "arr", len |-> len, el |-> el]
JObj(f) == [t |-> "obj", f |-> f]

\* Pieces of text; n is the number of characters of the piece.
Ws == [k |-> "ws", n |-> 1]
Guard == [k |-> "guard", n |-> 4]
Comment == [k |-> "comment", n |-> 6]
Html(m, n) == [k |-> "html", n |-> n, m |-> m]
Txt(c, n) == [k |-> "txt", n |-> n, c |-> c]
Json(v, n) == [k |-> "json", n |-> n, v |-> v]

RECURSIVE TextLen(_)
TextLen(s) == IF s = <<>> THEN 0 ELSE Head(s).n + TextLen(Tail(s))

\* Array.isArray(x)
IsArray(x) == x.t = "arr"

\* JavaScript truthiness of a value
Truthy(x) ==
    CASE x.t = "undef" -> FALSE
      [] x.t = "null" -> FALSE
      [] x.t = "num" -> x.n # 0
      [] x.t = "bool" -> x.b
      [] x.t = "str" -> TextLen(x.s) > 0
      [] OTHER -> TRUE

\* One character of a string (its content is irrelevant to every reader)
Char == JStr(<<Txt("?", 1)>>)

\* x[i] for an integer index; the caller guards against null/undefined x
Get(x, i) ==
    CASE x.t = "arr" ->
            IF i \in DOMAIN x.el THEN x.el[i]
            ELSE IF i >= 0 /\ i < x.len THEN JNull ELSE JUndef
      [] x.t = "str" -> IF i >= 0 /\ i < TextLen(x.s) THEN Char ELSE JUndef
      [] OTHER -> JUndef

\* x.d ; the caller guards against null/undefined x
GetD(x) == IF x.t = "obj" /\ "d" \in DOMAIN x.f THEN x.f.d ELSE JUndef

\* x?.[i]
OptGet(x, i) == IF x.t \in {"undef", "null"} THEN JUndef ELSE Get(x, i)

\* x.length of an array
Length(x) == x.len

(***************************************************************************)
(* Text operations                                                         *)
(***************************************************************************)
RECURSIVE DropLeadingWs(_)
DropLeadingWs(s) ==
    IF s # <<>> /\ Head(s).k = "ws" THEN DropLeadingWs(Tail(s)) ELSE s

RECURSIVE DropTrailingWs(_)
DropTrailingWs(s) ==
    IF s # <<>> /\ s[Len(s)].k = "ws"
    THEN DropTrailingWs(SubSeq(s, 1, Len(s) - 1)) ELSE s

\* String.prototype.trim
Trim(s) == DropTrailingWs(DropLeadingWs(s))

\* text.replace(/\/\*""\*\/\s*$/, '')
StripTrailingComment(s) ==
    LET body == DropTrailingWs(s)
    IN  IF body # <<>> /\ body[Len(body)].k = "comment"
        THEN SubSeq(body, 1, Len(body) - 1)
        ELSE s

\* text.replace(/^\)\]\}\'[\s\n]*/, '')
StripLeadingGuard(s) ==
    IF s # <<>> /\ Head(s).k = "guard" THEN DropLeadingWs(Tail(s)) ELSE s

\* JSON.parse: the text must be one JSON text with optional whitespace around it
JSONparse(s) ==
    LET core == Trim(s)
    IN  IF Len(core) = 1 /\ core[1].k = "json"
        THEN [ok |-> TRUE, v |-> core[1].v]
        ELSE [ok |-> FALSE, msg |-> "SyntaxError"]

\* a cleaner that forgets the anti-JSON guard prefix
cleanGoogleResponse_KeepGuard(text) ==
    StripTrailingComment(Trim(text))

cleanGoogleResponse(text) ==
    StripLeadingGuard(StripTrailingComment(Trim(text)))

(***************************************************************************)
(* misc-utils helpers used by the decoder                                  *)
(***************************************************************************)
CoordScale == 10

\* fixFloatNumber: scale correction of a coordinate; a missing or
\* non-numeric entry gives a null sub-field
fixFloatNumber(x) == IF x.t = "num" THEN JNum(x.n \div CoordScale) ELSE JNull

RECURSIVE RemoveFirstGuard(_)
RemoveFirstGuard(s) ==
    IF s = <<>> THEN s
    ELSE IF Head(s).k = "guard" THEN Tail(s)
    ELSE <<Head(s)>> \o RemoveFirstGuard(Tail(s))

\* unstringifyGoogleXrhResponse: strip the guard of a string-encoded
\* document and parse it; anything but a string throws
unstringifyGoogleXrhResponse(x) ==
    IF x.t # "str" THEN [ok |-> FALSE, msg |-> "TypeError"]
    ELSE JSONparse(RemoveFirstGuard(x.s))

(***************************************************************************)
(* parseJsonResult: a truthy place array to a Record, anything falsy to    *)
(* nothing                                                                 *)
(***************************************************************************)
NoPlace == [none |-> TRUE]

PlaceRecord(placeData, isAdvertisement) ==
        LET addressDetail == OptGet(OptGet(placeData, 183), 1)
            coordsArr == Get(placeData, 9)
            web == OptGet(OptGet(placeData, 7), 0)
        IN  [ none |-> FALSE,
              placeId |-> Get(placeData, 78),
              coords |-> IF Truthy(coordsArr)
                         THEN [lat |-> fixFloatNumber(Get(coordsArr, 2)),
                               lng |-> fixFloatNumber(Get(coordsArr, 3))]
                         ELSE [lat |-> JNull, lng |-> JNull],
              addressParsed |-> [ neighborhood |-> OptGet(addressDetail, 1),
                                  street |-> OptGet(addressDetail, 2),
                                  city |-> OptGet(addressDetail, 3),
                                  postalCode |-> OptGet(addressDetail, 4),
                                  state |-> OptGet(addressDetail, 5),
                                  countryCode |-> OptGet(addressDetail, 6) ],
              isAdvertisement |-> isAdvertisement,
              website |-> IF Truthy(web) THEN web ELSE JNull,
              categories |-> Get(placeData, 13) ]

\* an extractor without the early return for a missing place
parseJsonResult_NoGuard(placeData, isAdvertisement) ==
    PlaceRecord(placeData, isAdvertisement)

parseJsonResult(placeData, isAdvertisement) ==
    IF ~Truthy(placeData) THEN NoPlace
    ELSE PlaceRecord(placeData, isAdvertisement)

(***************************************************************************)
(* The structural search of parseSearchPlacesResponseBody                  *)
(***************************************************************************)
MinPlaceLength == 50
CoordsSlot == 9
MaxDepth == 6

\* a test that takes an array of the minimum length for a place
isPlaceDataCandidate_AtLeastMin(candidate) ==
    /\ IsArray(candidate)
    /\ IsArray(Get(candidate, CoordsSlot))
    /\ Length(Get(candidate, CoordsSlot)) >= 2
    /\ Length(candidate) >= MinPlaceLength

isPlaceDataCandidate(candidate) ==
    /\ IsArray(candidate)
    /\ IsArray(Get(candidate, CoordsSlot))
    /\ Length(Get(candidate, CoordsSlot)) >= 2
    /\ Length(candidate) > MinPlaceLength

RECURSIVE collectPlacesRecursively(_, _)
RECURSIVE CollectChildren(_, _, _)

\* the arrays pushed to foundPlaceArrays while visiting node, in push order
collectPlacesRecursively(node, depth) ==
    IF depth > MaxDepth \/ ~IsArray(node) THEN <<>>
    ELSE IF isPlaceDataCandidate(node) THEN <<node>>
    ELSE (IF Length(node) >= 2 /\ Get(node, 0).t = "null"
             /\ isPlaceDataCandidate(Get(node, 1))
          THEN <<Get(node, 1)>> ELSE <<>>)
         \o CollectChildren(node, 0, depth)

\* the first index from i on that holds an element, or the length: the holes
\* of an array are null and contribute nothing to the traversal
NextElement(node, i) ==
    LET later == {j \in DOMAIN node.el : j >= i /\ j < Length(node)}
    IN  IF later = {} THEN Length(node)
        ELSE CHOOSE j \in later : \A k \in later : j <= k

\* a traversal that visits the children from the last to the first
RECURSIVE CollectChildren_LastFirst(_, _, _)
CollectChildren_LastFirst(node, i, depth) ==
    LET j == NextElement(node, i)
    IN  IF j >= Length(node) THEN <<>>
        ELSE CollectChildren_LastFirst(node, j + 1, depth)
             \o collectPlacesRecursively(Get(node, j), depth + 1)

\* for (const child of node) from index i on
CollectChildren(node, i, depth) ==
    LET j == NextElement(node, i)
    IN  IF j >= Length(node) THEN <<>>
        ELSE collectPlacesRecursively(Get(node, j), depth + 1)
             \o CollectChildren(node, j + 1, depth)

\* seenPlaceIds.has(id): strings and numbers are Set keys by value
SeenHas(seen, id) == \E i \in 1..Len(seen) : seen[i].t = id.t /\ seen[i] = id

\* an extraction that pushes the Record of a candidate without an id
RECURSIVE ExtractPlaces_KeepsIdless(_, _, _, _)
ExtractPlaces_KeepsIdless(found, seen, out, skipped) ==
    IF found = <<>> THEN [out |-> out, skipped |-> skipped]
    ELSE
        LET placeData == parseJsonResult(Head(found), FALSE)
        IN  IF Truthy(placeData.placeId) /\ SeenHas(seen, placeData.placeId)
            THEN ExtractPlaces_KeepsIdless(Tail(found), seen, out, skipped)
            ELSE ExtractPlaces_KeepsIdless(Tail(found), Append(seen, placeData.placeId),
                                           Append(out, placeData), skipped)

\* foundPlaceArrays.forEach: the Records pushed and the skippedMeta count
RECURSIVE ExtractPlaces(_, _, _, _)
ExtractPlaces(found, seen, out, skipped) ==
    IF found = <<>> THEN [out |-> out, skipped |-> skipped]
    ELSE
        LET placeData == parseJsonResult(Head(found), FALSE)
        IN  IF Truthy(placeData.placeId)
            THEN IF ~SeenHas(seen, placeData.placeId)
                 THEN ExtractPlaces(Tail(found), Append(seen, placeData.placeId),
                                    Append(out, placeData), skipped)
                 ELSE ExtractPlaces(Tail(found), seen, out, skipped)
            ELSE ExtractPlaces(Tail(found), seen, out, skipped + 1)

\* ads.forEach: Records of the advertisement entries from index i on; a null
\* entry throws and keeps what was pushed before it
RECURSIVE ParseAds(_, _, _)
ParseAds(ads, i, out) ==
    IF i >= Length(ads) THEN [out |-> out, thrown |-> FALSE]
    ELSE
        LET ad == Get(ads, i)
        IN  IF ad.t = "null" THEN [out |-> out, thrown |-> TRUE]
            ELSE LET placeData == parseJsonResult(Get(ad, 15), TRUE)
                 IN  ParseAds(ads, i + 1,
                              IF placeData.none THEN out ELSE Append(out, placeData))

(***************************************************************************)
(* parseSearchPlacesResponseBody(responseBodyText, isAllPacesNoSearch)     *)
(* The result keeps, besides placesPaginationData and error, the number of *)
(* JSON parse attempts made and the skippedMeta count.                     *)
(***************************************************************************)
NoError == "null"
ErrEmpty == "Response body is empty"
ErrHtml == "Response body appears to be HTML instead of JSON"
ErrNoJson == "Response body doesn't contain a valid JSON: SyntaxError"
ErrWrapped == "Failed to parse wrapped response data"
ErrParsing == "Failed parsing JSON response"

HtmlMarkers == {"<!DOCTYPE", "<html", "<HTML"}

\* jsonString.startsWith(marker) for one of the three markers
StartsWithHtml(s) == s # <<>> /\ Head(s).k = "html" /\ Head(s).m \in HtmlMarkers

DecodeResult(places, error, attempts, skipped) ==
    [placesPaginationData |-> places, error |-> error,
     attempts |-> attempts, skippedMeta |-> skipped]

\* lines 674-707: the three parse attempts on the cleaned text
\* a parser that turns the failure of all attempts into an empty payload
ParseBody_SwallowFailure(jsonString) ==
    LET p1 == JSONparse(jsonString)
        again == cleanGoogleResponse(jsonString)
        p2 == JSONparse(again)
        p3 == unstringifyGoogleXrhResponse(JStr(again))
    IN  IF p1.ok THEN [ok |-> TRUE, jsonObject |-> p1.v, attempts |-> 1]
        ELSE IF p2.ok THEN [ok |-> TRUE, jsonObject |-> p2.v, attempts |-> 2]
        ELSE IF p3.ok
             THEN [ok |-> TRUE, attempts |-> 3,
                   jsonObject |-> JObj([d |-> JStr(again), _directData |-> p3.v])]
        ELSE [ok |-> TRUE, attempts |-> 3, jsonObject |-> JArr(0, <<>>)]

ParseBody(jsonString) ==
    LET p1 == JSONparse(jsonString)
        again == cleanGoogleResponse(jsonString)
        p2 == JSONparse(again)
        p3 == unstringifyGoogleXrhResponse(JStr(again))
    IN  IF p1.ok THEN [ok |-> TRUE, jsonObject |-> p1.v, attempts |-> 1]
        ELSE IF p2.ok THEN [ok |-> TRUE, jsonObject |-> p2.v, attempts |-> 2]
        ELSE IF p3.ok
             THEN [ok |-> TRUE, attempts |-> 3,
                   jsonObject |-> JObj([d |-> JStr(again), _directData |-> p3.v])]
        ELSE [ok |-> FALSE, attempts |-> 3]

\* lines 736-748: the manual clean-and-parse of jsonObject.d
ManualParse(d) ==
    IF d.t # "str" THEN [ok |-> FALSE, msg |-> "jsonObject.d is not a string"]
    ELSE LET cleaned == Trim(StripLeadingGuard(d.s))
             cut == IF cleaned # <<>> /\ cleaned[Len(cleaned)].k = "comment"
                    THEN SubSeq(cleaned, 1, Len(cleaned) - 1) ELSE cleaned
         IN  JSONparse(cut)

\* lines 724-763: the payload of the parsed tree
LocatePayload(jsonObject) ==
    LET d == GetD(jsonObject)
        u == unstringifyGoogleXrhResponse(d)
        m == ManualParse(d)
    IN  IF ~Truthy(d) THEN [ok |-> TRUE, data |-> jsonObject, attempts |-> 0]
        ELSE IF u.ok THEN [ok |-> TRUE, data |-> u.v, attempts |-> 1]
        ELSE IF m.ok THEN [ok |-> TRUE, data |-> m.v, attempts |-> 2]
        ELSE [ok |-> FALSE, attempts |-> IF d.t = "str" THEN 2 ELSE 0]

\* lines 807-816: data.length < 5 is a short metadata response
isShortMetadata(data) == IsArray(data) /\ Length(data) < 5

\* a decoder that takes only a short metadata response for an expected miss
NoOrganicResults_LongIsError(data, placesPaginationData, attempts) ==
    DecodeResult(placesPaginationData,
                 IF isShortMetadata(data) THEN NoError ELSE ErrParsing, attempts, 0)

\* lines 807-816: the structural search found no candidate
NoOrganicResults(data, placesPaginationData, attempts) ==
    DecodeResult(placesPaginationData, NoError, attempts, 0)

\* lines 765-849: advertisements, structural search, extraction
ParsePlaces(data, attempts) ==
    IF data.t = "null" THEN DecodeResult(<<>>, ErrParsing, attempts, 0)
    ELSE
        LET d2 == Get(data, 2)
            d21 == Get(d2, 1)
            d210 == Get(d21, 0)
            hasAds == Truthy(d2) /\ Truthy(d21) /\ Truthy(d210)
            ads == IF hasAds THEN d210 ELSE JArr(0, <<>>)
        IN  IF ~IsArray(ads) THEN DecodeResult(<<>>, ErrParsing, attempts, 0)
            ELSE
                LET adRecs == ParseAds(ads, 0, <<>>)
                    foundPlaceArrays == collectPlacesRecursively(data, 0)
                    ex == ExtractPlaces(foundPlaceArrays, <<>>, adRecs.out, 0)
                IN  IF adRecs.thrown
                    THEN DecodeResult(adRecs.out, ErrParsing, attempts, 0)
                    ELSE IF foundPlaceArrays = <<>>
                    THEN NoOrganicResults(data, adRecs.out, attempts)
                    ELSE DecodeResult(ex.out, NoError, attempts, ex.skipped)

parseSearchPlacesResponseBody(responseBodyText, isAllPacesNoSearch) ==
    LET jsonString == cleanGoogleResponse(responseBodyText)
        parsed == ParseBody(jsonString)
    IN  IF jsonString = <<>> THEN DecodeResult(<<>>, ErrEmpty, 0, 0)
        ELSE IF StartsWithHtml(jsonString) THEN DecodeResult(<<>>, ErrHtml, 0, 0)
        ELSE IF ~parsed.ok THEN DecodeResult(<<>>, ErrNoJson, parsed.attempts, 0)
        ELSE IF parsed.jsonObject.t = "null"
             THEN DecodeResult(<<>>, ErrParsing, parsed.attempts, 0)
        ELSE IF isAllPacesNoSearch
             THEN LET placeData == parseJsonResult(Get(parsed.jsonObject, 6), FALSE)
                  IN  DecodeResult(IF placeData.none THEN <<>> ELSE <<placeData>>,
                                   NoError, parsed.attempts, 0)
        ELSE LET payload == LocatePayload(parsed.jsonObject)
             IN  IF ~payload.ok
                 THEN DecodeResult(<<>>, ErrWrapped,
                                   parsed.attempts + payload.attempts, 0)
                 ELSE ParsePlaces(payload.data, parsed.attempts + payload.attempts)

(***************************************************************************)
(* Bounded inputs of the decoder                                           *)
(***************************************************************************)
PlaceLen == 60

\* a[i] for a list written <<a0, a1, ...>>
List(xs) ==
    JArr(Len(xs), [i \in {j \in 0..(Len(xs) - 1) : xs[j + 1].t # "null"} |-> xs[i + 1]])

CoordsArr(lat, lng) == JArr(4, (2 :> JNum(lat) @@ 3 :> JNum(lng)))

\* a place array with an id at slot 78 and coordinates at slot 9
Place(id, lat, lng) == JArr(PlaceLen, (9 :> CoordsArr(lat, lng) @@ 78 :> id))

Id(c) == JStr(<<Txt(c, 1)>>)
PA == Place(Id("A"), 10, 20)
PB == Place(Id("B"), 30, 40)
PC == Place(Id("C"), 50, 60)
\* a place array without an id
PNoId == JArr(PlaceLen, (9 :> CoordsArr(10, 20)))
\* carries an id but is too short to be a candidate
PShort == JArr(MinPlaceLength, (9 :> CoordsArr(10, 20) @@ 78 :> Id("S")))
\* carries an id but its coordinate slot is missing or too short
PNoCoords == JArr(PlaceLen, (78 :> Id("N")))
PCoords1 == JArr(PlaceLen, (9 :> JArr(1, <<>>) @@ 78 :> Id("O")))
\* coordinate slot of two elements: latitude and longitude entries missing
PCoords2 == JArr(PlaceLen, (9 :> JArr(2, <<>>) @@ 78 :> Id("P")))

\* the common wrapper [null, place, ...]
Wrap(p) == List(<<JNull, p>>)

RECURSIVE Nest(_, _)
Nest(x, k) == IF k = 0 THEN x ELSE Nest(List(<<x>>), k - 1)

\* a search payload: advertisement entries at [2][1][0], organic results at [0]
Ad(p) == JArr(16, (15 :> p))
WithAds(adList, organic) ==
    List(<<organic, JNull, List(<<JNull, List(<<List(adList)>>)>>)>>)

SearchPayloads ==
    << List(<<>>),
       List(<<List(<<JNum(2)>>), List(<<JNum(3)>>)>>),
       List(<<PA>>),
       List(<<PA, PB>>),
       List(<<PB, PA>>),
       List(<<PA, PA>>),
       List(<<PA, PB, PA>>),
       List(<<Wrap(PA), PB>>),
       List(<<Wrap(PA), PA>>),
       List(<<PA, Wrap(PA)>>),
       List(<<Wrap(PA), Wrap(PB), Wrap(PC)>>),
       List(<<PNoId, PA>>),
       List(<<PA, PNoId, PB>>),
       List(<<PNoId>>),
       List(<<PShort, PNoCoords, PCoords1>>),
       List(<<PCoords2, PA>>),
       List(<<PA, JNull, List(<<JNum(1), JNum(2)>>), JNull, JNull, JNull, PB>>),
       PA,
       Nest(PA, MaxDepth),
       Nest(PA, MaxDepth + 1),
       Nest(Wrap(PA), MaxDepth),
       List(<<Nest(PA, MaxDepth), PB>>),
       WithAds(<<Ad(PA)>>, List(<<PB>>)),
       WithAds(<<Ad(PA)>>, List(<<PA>>)),
       WithAds(<<Ad(PA), Ad(PA)>>, List(<<>>)),
       WithAds(<<Ad(PNoCoords)>>, List(<<PB>>)),
       WithAds(<<Ad(PNoCoords)>>, JNull),
       WithAds(<<Ad(PNoId)>>, List(<<PB>>)),
       WithAds(<<JNum(1), Ad(PNoCoords)>>, JNull),
       WithAds(<<Ad(PNoCoords), JNull, Ad(PB)>>, List(<<PC>>)),
       List(<<JNull, JNull, List(<<JNull, List(<<JNum(5)>>)>>), PA>>)
    >>

\* payloads of a detail preview: the place sits at slot 6
DetailPayloads ==
    << JArr(7, (6 :> PA)),
       JArr(7, (6 :> PNoId)),
       JArr(7, (6 :> List(<<>>))),
       JArr(7, (6 :> JNum(7))),
       JArr(7, (6 :> JNum(0))),
       JArr(7, (6 :> JBool(FALSE))),
       JArr(7, (6 :> JStr(<<>>))),
       JArr(7, <<>>),
       JArr(3, <<>>),
       JArr(8, (6 :> PB @@ 7 :> PA))
    >>

Scalars ==
    << JNull, JNum(0), JNum(5), JBool(TRUE), JStr(<<>>),
       JStr(<<Txt("abc", 3)>>), JStr(<<Txt("abcdefgh", 8)>>),
       JObj([c |-> JNum(0)]) >>

InnerDocs == SearchPayloads \o DetailPayloads \o Scalars

\* the envelope {"c":0,"d":"<text>"}
Envelope(d) == JObj([c |-> JNum(0), d |-> d])

\* the text of a JSON value (its length is immaterial to the decoder)
TextOf(v) == Json(v, 2)

\* wrapper fields holding the guard-prefixed, string-encoded inner document
GuardedStrings(v) ==
    << JStr(<<Guard, Ws, TextOf(v)>>), JStr(<<Guard, TextOf(v)>>) >>

\* other wrapper fields
OtherStrings(v) ==
    << JStr(<<TextOf(v)>>),
       JStr(<<Guard, Ws, TextOf(v), Comment>>),
       JStr(<<Ws, Guard, Ws, TextOf(v), Ws>>),
       JStr(<<Guard, Guard, TextOf(v)>>) >>

BadFields ==
    << JStr(<<>>), JStr(<<Txt("junk", 4)>>), JStr(<<Guard>>), JNum(5), JNum(0),
       JNull, List(<<PA>>), JStr(<<Html("<html", 5)>>) >>

RECURSIVE Flatten(_)
Flatten(ss) == IF ss = <<>> THEN <<>> ELSE Head(ss) \o Flatten(Tail(ss))

Map1(Op(_), xs) == [i \in 1..Len(xs) |-> Op(xs[i])]

EnvelopeOfGuarded(v) == Map1(Envelope, GuardedStrings(v))
EnvelopeOfOther(v) == Map1(Envelope, OtherStrings(v))

WrappedDocs == Flatten(Map1(EnvelopeOfGuarded, InnerDocs))
OddWrappedDocs ==
    Flatten(Map1(EnvelopeOfOther, <<List(<<PA, PB>>), JArr(7, (6 :> PA)), JNull>>))
    \o Map1(Envelope, BadFields)

Docs == InnerDocs \o WrappedDocs \o OddWrappedDocs

Prefixes ==
    << <<>>, <<Ws>>, <<Guard>>, <<Guard, Ws>>, <<Ws, Guard, Ws, Ws>>,
       <<Guard, Guard>>, <<Guard, Ws, Guard, Guard>>, <<Comment>> >>
Suffixes ==
    << <<>>, <<Ws>>, <<Comment>>, <<Comment, Ws>>, <<Ws, Comment>>,
       <<Comment, Comment>>, <<Guard>> >>
JsonCore(v) == <<TextOf(v)>>
Cores ==
    << <<>>, <<Html("<!DOCTYPE", 9)>>, <<Html("<html", 5)>>, <<Html("<HTML", 5)>>,
       <<Txt("<!doctype", 9)>>, <<Txt("junk", 4)>>,
       <<TextOf(List(<<PA>>)), Txt("junk", 4)>>,
       <<TextOf(List(<<PA>>)), Ws, TextOf(List(<<PB>>))>> >>
    \o Map1(JsonCore, Docs)

Kinds == {"SearchPage", "DetailPreview"}

(***************************************************************************)
(* State                                                                   *)
(***************************************************************************)
VARIABLES
    cfg,            \* the run: options, limits, the responses the transport may deliver
    dBody, dKind,   \* decoder under test: input
    dResult,        \* <<>> or <<result of decoding dBody>>
    dInner,         \* <<>> or <<result of decoding the wrapper field's text>>
    pageStats,      \* per session: typedefs.PageStats
    loop,           \* per session: position and locals of enqueueAllPlaceDetails
    handler,        \* per handler: position and locals of the response handler
    tracker,        \* maxCrawledPlacesTracker
    requestQueue,   \* uniqueKey -> the request that was added
    placesCache,    \* placeId key -> coordinates
    exportSeen,     \* exportUrlsDeduper
    dataset,        \* urls given to Apify.pushData, in order
    stats,          \* out-of-polygon counter
    delivered,      \* per session: number of responses handed to a handler
    completed       \* per session: <<pageNum, found, enqueued + pushed>> of each
                    \* completely processed response, in order

vars == <<cfg, dBody, dKind, dResult, dInner, pageStats, loop, handler, tracker,
          requestQueue, placesCache, exportSeen, dataset, stats, delivered,
          completed>>

decoderVars == <<dBody, dKind, dResult, dInner>>
crawlVars == <<pageStats, loop, handler, tracker, requestQueue, placesCache,
               exportSeen, dataset, stats, delivered, completed>>

Sessions == {1, 2}
Handlers == {1, 2}

(***************************************************************************)
(* helper-classes and utils used by the handler and the loop               *)
(***************************************************************************)
\* searchString || request.url
SearchKey(s) == cfg.searchKey[s]

\* a negative limit stands for "no limit"
Below(n, limit) == limit < 0 \/ n < limit

\* MaxCrawledPlacesTracker.canEnqueueMore(searchKey)
canEnqueueMore(t, key) ==
    /\ Below(t.enqueuedTotal, cfg.maxCrawledPlaces)
    /\ Below(t.enqueuedPerSearch[key], cfg.maxCrawledPlacesPerSearch)

\* MaxCrawledPlacesTracker.setEnqueued(searchKey): the tracker afterwards.
\* reachedLimit is history, not a field of the tracker: it records that
\* enqueuedTotal has been at maxCrawledPlaces at some time.
setEnqueued(t, key) ==
    IF canEnqueueMore(t, key)
    THEN [t EXCEPT !.enqueuedTotal = @ + 1, !.enqueuedPerSearch[key] = @ + 1,
                   !.reachedLimit = @ \/ (t.enqueuedTotal + 1 = cfg.maxCrawledPlaces)]
    ELSE t

\* MaxCrawledPlacesTracker.canScrapeMore() and canScrapeMore(searchString)
canScrapeMore(t) == Below(t.scrapedTotal, cfg.maxCrawledPlaces)
canScrapeMoreFor(t, key) ==
    /\ Below(t.scrapedTotal, cfg.maxCrawledPlaces)
    /\ Below(t.scrapedPerSearch[key], cfg.maxCrawledPlacesPerSearch)

\* MaxCrawledPlacesTracker.setScraped()
setScraped(t) == [t EXCEPT !.scrapedTotal = @ + 1]

\* a compensation that forgets the counter of the search
ReleaseEnqueued_TotalOnly(t, key) ==
    [t EXCEPT !.enqueuedTotal = @ - 1]

\* the handler's own compensation when the queue reports a duplicate
ReleaseEnqueued(t, key) ==
    [t EXCEPT !.enqueuedTotal = @ - 1, !.enqueuedPerSearch[key] = @ - 1]

\* the text of a place id as used in the url and as uniqueKey
KeyOf(id) == IF id.t = "str" /\ id.s # <<>> THEN id.s[1].c ELSE "undefined"

NoCoords == [lat |-> JNull, lng |-> JNull]
CoordsKnown(c) == c # JUndef /\ c.lat.t = "num" /\ c.lng.t = "num"

\* PlacesCache.getLocation / addLocation
getLocation(cache, key) == IF key \in DOMAIN cache THEN cache[key] ELSE JUndef
addLocation(cache, key, coordinates) ==
    IF CoordsKnown(coordinates)
    THEN [k \in DOMAIN cache \union {key} |->
            IF k = key THEN coordinates ELSE cache[k]]
    ELSE cache

\* checkInPolygon(geolocation, coordinates): true if no geo or coordinates
checkInPolygon(geolocation, coordinates) ==
    \/ ~geolocation.present
    \/ ~CoordsKnown(coordinates)
    \/ <<coordinates.lat.n, coordinates.lng.n>> \in geolocation.points

PageSize == 20

\* a rank that takes the page number as starting at zero
Rank_PageFromZero(pageNumber, index) == (pageNumber * PageSize) + (index + 1)


\* the rank of the record at index of the response with ech = pageNumber
Rank(pageNumber, index) == ((pageNumber - 1) * PageSize) + (index + 1)

(***************************************************************************)
(* The response handler returned by enqueuePlacesFromResponse.             *)
(* A handler runs from one await to the next without interruption; the     *)
(* steps below are those stretches.                                        *)
(***************************************************************************)
IdleHandler == [pc |-> "idle"]

\* the state the handler's loop over placesPaginationData works on
World == [tracker |-> tracker, placesCache |-> placesCache, exportSeen |-> exportSeen,
          stats |-> stats]

\* statistics whose totalFound counts the new records only
FinishStats_CountNewOnly(ps, h) ==
    [ps EXCEPT !.found = Len(h.places),
               !.totalFound = @ + h.enqueued + h.pushed,
               !.enqueued = h.enqueued,
               !.totalEnqueued = @ + h.enqueued,
               !.pushed = h.pushed,
               !.totalPushed = @ + h.pushed]

\* statistics whose per-batch fields add up over the responses
FinishStats_Accumulates(ps, h) ==
    [ps EXCEPT !.found = @ + Len(h.places),
               !.totalFound = @ + Len(h.places),
               !.enqueued = @ + h.enqueued,
               !.totalEnqueued = @ + h.enqueued,
               !.pushed = @ + h.pushed,
               !.totalPushed = @ + h.pushed]

\* statistics whose totalFound is set, not added to
FinishStats_OverwritesTotalFound(ps, h) ==
    [ps EXCEPT !.found = Len(h.places),
               !.totalFound = Len(h.places),
               !.enqueued = h.enqueued,
               !.totalEnqueued = @ + h.enqueued,
               !.pushed = h.pushed,
               !.totalPushed = @ + h.pushed]

\* lines 223-228: the statistics of a completely processed response
FinishStats(ps, h) ==
    [ps EXCEPT !.found = Len(h.places),
               !.totalFound = @ + Len(h.places),
               !.enqueued = h.enqueued,
               !.totalEnqueued = @ + h.enqueued,
               !.pushed = h.pushed,
               !.totalPushed = @ + h.pushed]

\* a reservation that goes on to addRequest although setEnqueued refused
Reserve_IgnoresRefusal(h, w, searchKey) ==
    [h |-> [h EXCEPT !.pc = "addRequest"],
     w |-> [w EXCEPT !.tracker = setEnqueued(@, searchKey)]]

\* lines 190-196: setEnqueued reserves the place or, refusing, breaks the loop
Reserve(h, w, searchKey) ==
    IF ~canEnqueueMore(w.tracker, searchKey)
    THEN [h |-> [h EXCEPT !.pc = "finish"], w |-> w]
    ELSE [h |-> [h EXCEPT !.pc = "addRequest"],
          w |-> [w EXCEPT !.tracker = setEnqueued(@, searchKey)]]

\* a geofence test that lets every place through
isCorrectGeolocation_Always(coordinates) == TRUE

\* line 156: the geofence test of the coordinates the loop goes on with
isCorrectGeolocation(coordinates) == checkInPolygon(cfg.geolocation, coordinates)

\* the cache entry is written whatever the coordinates hold
Locate_StoresUnknown(place, cache) ==
    LET key == KeyOf(place.placeId)
        coordinates == IF place.coords # JUndef THEN place.coords
                       ELSE getLocation(cache, key)
    IN  [coordinates |-> coordinates,
         placesCache |-> [k \in DOMAIN cache \union {key} |->
                            IF k = key THEN coordinates ELSE cache[k]]]

\* lines 151-154: the coordinates the loop goes on with and the cache after
\* addLocation.  placePaginationData.coords || placesCache.getLocation(placeId):
\* the coords object is truthy whatever its fields hold
Locate(place, cache) ==
    LET key == KeyOf(place.placeId)
        coordinates == IF place.coords # JUndef THEN place.coords
                       ELSE getLocation(cache, key)
    IN  [coordinates |-> coordinates,
         placesCache |-> addLocation(cache, key, coordinates)]

\* lines 147-221: the loop from the record after h.index up to the next await
\* or to the end of the loop.  Gives the handler and the world afterwards;
\* pc "finish" means the loop was left.
RECURSIVE RunRecords(_, _)
RunRecords(h, w) ==
    IF h.index + 1 >= Len(h.places) THEN [h |-> [h EXCEPT !.pc = "finish"], w |-> w]
    ELSE
        LET index == h.index + 1
            place == h.places[index + 1]
            key == KeyOf(place.placeId)
            located == Locate(place, w.placesCache)
            coordinates == located.coordinates
            w1 == [w EXCEPT !.placesCache = located.placesCache]
            h1 == [h EXCEPT !.index = index]
            searchKey == SearchKey(h.sess)
        IN  IF ~isCorrectGeolocation(coordinates)
            THEN RunRecords(h1, [w1 EXCEPT !.stats = @ + 1])
            ELSE IF cfg.exportPlaceUrls
            THEN IF ~canScrapeMore(w1.tracker)
                 THEN [h |-> [h1 EXCEPT !.pc = "abort"], w |-> w1]
                 ELSE IF ~canScrapeMoreFor(w1.tracker, searchKey)
                 THEN [h |-> [h1 EXCEPT !.pc = "finish"], w |-> w1]
                 ELSE IF cfg.hasDeduper /\ key \in w1.exportSeen
                 THEN \* already pushed: only the check after the push remains
                      IF ~canScrapeMore(w1.tracker)
                      THEN [h |-> [h1 EXCEPT !.pc = "abort"], w |-> w1]
                      ELSE RunRecords(h1, w1)
                 ELSE [h |-> [h1 EXCEPT !.pc = "pushData", !.pushed = @ + 1],
                       w |-> [w1 EXCEPT !.tracker = setScraped(@),
                                        !.exportSeen = IF cfg.hasDeduper
                                                       THEN @ \union {key} ELSE @]]
            ELSE Reserve(h1, w1, searchKey)

\* the variables after a stretch of the handler that ended in state r, ps being
\* the session's pageStats as that stretch left them before the loop's exit
Settle(hid, r, ps) ==
    /\ tracker' = r.w.tracker
    /\ placesCache' = r.w.placesCache
    /\ exportSeen' = r.w.exportSeen
    /\ stats' = r.w.stats
    /\ IF r.h.pc = "finish"
       THEN /\ pageStats' = [pageStats EXCEPT ![r.h.sess] = FinishStats(ps, r.h)]
            /\ handler' = [handler EXCEPT ![hid] = IdleHandler]
            /\ completed' = [completed EXCEPT ![r.h.sess] =
                    Append(@, <<ps.pageNum, Len(r.h.places),
                                r.h.enqueued + r.h.pushed>>)]
       ELSE /\ handler' = [handler EXCEPT ![hid] = r.h]
            /\ pageStats' = [pageStats EXCEPT ![r.h.sess] = ps]
            /\ UNCHANGED completed

ErrUnexpected == "Unexpected error during response processing"

Running(s) == loop[s].pc \notin {"idle", "returned", "thrown"}

\* lines 100-101: the url patterns google.*/search, google.*/maps/rpc and
\* google.*/maps/preview/place; the model names a url by the pattern it matches
isSearchPage(url) == url \in {"search", "rpc"}
isDetailPreviewPage(url) == url = "preview"

\* a handler that takes every response for a data response
IsDropped_Never(url) == FALSE

\* lines 102-104: if (!isSearchPage && !isDetailPreviewPage) return
IsDropped(url) == ~isSearchPage(url) /\ ~isDetailPreviewPage(url)

\* lines 92-118: a response event; a url that is neither a search nor a detail
\* preview url is dropped, any other marks the page as a data page and reads
\* the body
HandleResponse(hid, s) ==
    /\ hid \in cfg.handlers
    /\ handler[hid].pc = "idle"
    /\ Running(s)
    /\ delivered[s] < cfg.maxResponses
    /\ \E r \in 1..Len(cfg.responses) :
         /\ delivered' = [delivered EXCEPT ![s] = @ + 1]
         /\ IF IsDropped(cfg.responses[r].url)
            THEN UNCHANGED <<pageStats, handler>>
            ELSE /\ pageStats' = [pageStats EXCEPT ![s].isDataPage = TRUE]
                 /\ handler' = [handler EXCEPT ![hid] =
                                  [pc |-> "text", sess |-> s, resp |-> r]]
    /\ UNCHANGED <<cfg, decoderVars, loop, tracker, requestQueue, placesCache,
                   exportSeen, dataset, stats, completed>>

\* a catch that counts what the interrupted batch had enqueued and pushed
CaughtStats_CountsPartialBatch(ps, h) ==
    IF h.pc = "text" THEN [ps EXCEPT !.error = ErrUnexpected]
    ELSE [ps EXCEPT !.error = ErrUnexpected,
                    !.enqueued = h.enqueued, !.totalEnqueued = @ + h.enqueued,
                    !.pushed = h.pushed, !.totalPushed = @ + h.pushed]

\* lines 241-245: the catch writes pageStats.error and nothing else; h is the
\* handler's frame at the await that threw
CaughtStats(ps, h) == [ps EXCEPT !.error = ErrUnexpected]

\* lines 241-245: an exception of an awaited call lands in pageStats.error
HandlerThrows(hid) ==
    /\ handler[hid].pc \in {"text", "addRequest", "pushData", "abort"}
    /\ cfg.mayThrow
    /\ pageStats' = [pageStats EXCEPT ![handler[hid].sess] =
                                         CaughtStats(@, handler[hid])]
    /\ handler' = [handler EXCEPT ![hid] = IdleHandler]
    /\ UNCHANGED <<cfg, decoderVars, loop, tracker, requestQueue, placesCache,
                   exportSeen, dataset, stats, delivered, completed>>

\* a handler that stores whatever the decoder reports, its null included
ErrorAfterDecode_StoresNull(ps, error) == [ps EXCEPT !.error = error]

\* lines 129-132: if (error) pageStats.error = { message: error, ... }
ErrorAfterDecode(ps, error) ==
    IF error # NoError THEN [ps EXCEPT !.error = error] ELSE ps

\* lines 118-147: the body was read and stored; decode it and start the loop
HandleBody(hid) ==
    /\ handler[hid].pc = "text"
    /\ LET resp == cfg.responses[handler[hid].resp]
           s == handler[hid].sess
           decoded == parseSearchPlacesResponseBody(resp.body, resp.url = "preview")
           ps == ErrorAfterDecode(pageStats[s], decoded.error)
           h == [pc |-> "loop", sess |-> s, resp |-> handler[hid].resp,
                 places |-> decoded.placesPaginationData,
                 pageNumber |-> resp.ech,
                 index |-> -1, enqueued |-> 0, pushed |-> 0]
       IN  Settle(hid, RunRecords(h, World), ps)
    /\ UNCHANGED <<cfg, decoderVars, loop, requestQueue, dataset, delivered>>

\* an outcome that counts every submitted place as enqueued
AfterAddRequest_CountsDuplicates(h, w, wasAlreadyPresent, searchKey) ==
    [h |-> [h EXCEPT !.enqueued = @ + 1], w |-> w]

\* lines 213-219: the outcome of addRequest is applied
AfterAddRequest(h, w, wasAlreadyPresent, searchKey) ==
    IF wasAlreadyPresent
    THEN [h |-> h, w |-> [w EXCEPT !.tracker = ReleaseEnqueued(@, searchKey)]]
    ELSE [h |-> [h EXCEPT !.enqueued = @ + 1], w |-> w]

\* lines 198-219: requestQueue.addRequest resolved
AddRequestResolved(hid) ==
    /\ handler[hid].pc = "addRequest"
    /\ LET h == handler[hid]
           place == h.places[h.index + 1]
           uniqueKey == KeyOf(place.placeId)
           wasAlreadyPresent == uniqueKey \in DOMAIN requestQueue
           searchKey == SearchKey(h.sess)
           request == [rank |-> Rank(h.pageNumber, h.index), resp |-> h.resp,
                       searchKey |-> searchKey, coords |-> place.coords,
                       isAdvertisement |-> place.isAdvertisement]
           after == AfterAddRequest(h, World, wasAlreadyPresent, searchKey)
           h1 == after.h
           w1 == after.w
       IN  /\ requestQueue' =
                IF wasAlreadyPresent THEN requestQueue
                ELSE [k \in DOMAIN requestQueue \union {uniqueKey} |->
                        IF k = uniqueKey THEN request ELSE requestQueue[k]]
           /\ Settle(hid, RunRecords(h1, w1), pageStats[h.sess])
    /\ UNCHANGED <<cfg, decoderVars, loop, dataset, delivered>>

\* lines 181-188: Apify.pushData resolved; then the check after the push
PushDataResolved(hid) ==
    /\ handler[hid].pc = "pushData"
    /\ LET h == handler[hid]
           place == h.places[h.index + 1]
       IN  /\ dataset' = Append(dataset, KeyOf(place.placeId))
           /\ IF ~canScrapeMore(tracker)
              THEN Settle(hid, [h |-> [h EXCEPT !.pc = "abort"], w |-> World],
                          pageStats[h.sess])
              ELSE Settle(hid, RunRecords(h, World), pageStats[h.sess])
    /\ UNCHANGED <<cfg, decoderVars, loop, requestQueue, delivered>>

\* lines 169-170, 186-187: abortRunIfReachedMaxPlaces resolved; break
AbortResolved(hid) ==
    /\ handler[hid].pc = "abort"
    /\ Settle(hid, [h |-> [handler[hid] EXCEPT !.pc = "finish"], w |-> World],
              pageStats[handler[hid].sess])
    /\ UNCHANGED <<cfg, decoderVars, loop, requestQueue, dataset, delivered>>

(***************************************************************************)
(* enqueueAllPlaceDetails: the session.  Its steps are the stretches       *)
(* between awaits that read or write the shared state.                     *)
(***************************************************************************)
MaxPolls == 2
EmptyScrollLimit == 10

Return(l, reason, error) ==
    [l EXCEPT !.pc = "returned", !.reason = reason, !.errorAtEnd = error]
Throw(l, reason, error) ==
    [l EXCEPT !.pc = "thrown", !.reason = reason, !.errorAtEnd = error]

LoopFrame == <<cfg, decoderVars, handler, delivered, completed, placesCache,
               exportSeen, dataset, stats>>

\* lines 372-388: click the search button, read the zoom of the page url
StartSearch(s) ==
    /\ loop[s].pc = "start"
    /\ \E zoom \in cfg.zooms :
         loop' = [loop EXCEPT ![s] = [@ EXCEPT !.pc = "outcome", !.startZoom = zoom]]
    /\ UNCHANGED <<LoopFrame, pageStats, tracker, requestQueue>>

\* a poll that looks for the result list first
waitForSearchResults_ResultsFirst(timedOut, sig) ==
    IF timedOut THEN "noOutcomeLoaded"
    ELSE IF sig.hasResults THEN "hasResults"
    ELSE IF sig.badQuery THEN "isBadQuery"
    ELSE IF sig.noResults THEN "hasNoResults"
    ELSE IF sig.placeDetail THEN "isPlaceDetail"
    ELSE ""

\* lines 255-297: one poll of waitForSearchResults; "" when nothing showed yet
waitForSearchResults(timedOut, sig) ==
    IF timedOut THEN "noOutcomeLoaded"
    ELSE IF sig.badQuery THEN "isBadQuery"
    ELSE IF sig.noResults THEN "hasNoResults"
    ELSE IF sig.placeDetail THEN "isPlaceDetail"
    ELSE IF sig.hasResults THEN "hasResults"
    ELSE ""

Signals == [badQuery : BOOLEAN, noResults : BOOLEAN, placeDetail : BOOLEAN,
            hasResults : BOOLEAN]
NoSignal == [badQuery |-> FALSE, noResults |-> FALSE, placeDetail |-> FALSE,
             hasResults |-> FALSE]

\* an outcome handling that returns when no outcome was recognised
AfterOutcome_NoOutcomeReturns(l, outcome, err) ==
    CASE outcome = "" -> [l EXCEPT !.polls = @ + 1]
      [] outcome = "noOutcomeLoaded" -> Return(l, "NoOutcome", err)
      [] outcome = "isBadQuery" -> Return(l, "BadQuery", err)
      [] outcome = "hasNoResults" -> Return(l, "NoResults", err)
      [] outcome = "isPlaceDetail" -> [l EXCEPT !.pc = "single"]
      [] OTHER -> [l EXCEPT !.pc = "top"]

\* an outcome handling that takes every outcome for a result list
AfterOutcome_AlwaysScrolls(l, outcome, err) ==
    IF outcome = "" THEN [l EXCEPT !.polls = @ + 1] ELSE [l EXCEPT !.pc = "top"]

\* lines 391-421: the outcome of the search decides how the session goes on;
\* "" is the poll that saw nothing and waits for the next one (line 295)
AfterOutcome(l, outcome, err) ==
    CASE outcome = "" -> [l EXCEPT !.polls = @ + 1]
      [] outcome = "noOutcomeLoaded" -> Throw(l, "NoOutcome", err)
      [] outcome = "isBadQuery" -> Return(l, "BadQuery", err)
      [] outcome = "hasNoResults" -> Return(l, "NoResults", err)
      [] outcome = "isPlaceDetail" -> [l EXCEPT !.pc = "single"]
      [] OTHER -> [l EXCEPT !.pc = "top"]

\* one poll of the session: the window has elapsed or not, the page shows sig
Poll(s, timedOut, sig) ==
    /\ loop[s].pc = "outcome"
    /\ LET l == loop[s]
           outcome == waitForSearchResults(timedOut, sig)
       IN  /\ timedOut => l.polls > 0
           /\ outcome = "" => l.polls < MaxPolls
           /\ loop' = [loop EXCEPT ![s] = AfterOutcome(l, outcome, pageStats[s].error)]
    /\ UNCHANGED <<LoopFrame, pageStats, tracker, requestQueue>>

\* lines 255-297, 391-421: the polls of waitForSearchResults and what follows
AwaitOutcome(s) ==
    \E timedOut \in BOOLEAN, sig \in Signals : Poll(s, timedOut, sig)

\* a wait that is content without a record
AfterSinglePlaceWait_NoThrow(l, ps) == Return(l, "SinglePlace", ps.error)

\* lines 413-414: the waiter resolves once totalFound > 0 and the session
\* returns; it throws when the time is up before that
AfterSinglePlaceWait(l, ps) ==
    IF ps.totalFound > 0
    THEN Return(l, "SinglePlace", ps.error)
    ELSE Throw(l, "SinglePlaceTimeout", ps.error)

\* line 413: the wait for the single place's response ends, by a record
\* having been found or by the timeout
SinglePlaceWait(s) ==
    /\ loop[s].pc = "single"
    /\ loop' = [loop EXCEPT ![s] = AfterSinglePlaceWait(@, pageStats[s])]
    /\ UNCHANGED <<LoopFrame, pageStats, tracker, requestQueue>>

\* lines 447-476: the DOM fallback loop from place l.domIndex on, up to the
\* next addRequest or to the return of line 479
DomNext(l, t) ==
    IF l.domIndex > Len(l.domPlaces) \/ ~canEnqueueMore(t, cfg.searchKey[l.sess])
    THEN [l |-> Return(l, "DomFallback", l.errorAtEnd), t |-> t]
    ELSE [l |-> [l EXCEPT !.pc = "dom"], t |-> setEnqueued(t, cfg.searchKey[l.sess])]

\* lines 423-481: the head of the scroll loop
LoopTop(s) ==
    /\ loop[s].pc = "top"
    /\ IF pageStats[s].pageNum > 2 /\ pageStats[s].totalFound = 0
       THEN \E domPlaces \in cfg.domPlaces :
              LET l == [loop[s] EXCEPT !.useDOMFallback = TRUE,
                                       !.domPlaces = domPlaces, !.domIndex = 1,
                                       !.errorAtEnd = pageStats[s].error]
                  r == DomNext(l, tracker)
              IN  IF domPlaces = <<>>
                  THEN /\ loop' = [loop EXCEPT ![s] = [l EXCEPT !.pc = "check"]]
                       /\ UNCHANGED tracker
                  ELSE /\ loop' = [loop EXCEPT ![s] = r.l]
                       /\ tracker' = r.t
       ELSE /\ loop' = [loop EXCEPT ![s] = [@ EXCEPT !.pc = "check"]]
            /\ UNCHANGED tracker
    /\ UNCHANGED <<LoopFrame, pageStats, requestQueue>>

\* lines 461-475: addRequest of the DOM fallback resolved
DomAddResolved(s) ==
    /\ loop[s].pc = "dom"
    /\ LET l == loop[s]
           uniqueKey == l.domPlaces[l.domIndex]
           wasAlreadyPresent == uniqueKey \in DOMAIN requestQueue
           request == [rank |-> pageStats[s].totalEnqueued + 1, resp |-> 0,
                       searchKey |-> SearchKey(s), coords |-> JUndef,
                       isAdvertisement |-> FALSE]
           r == DomNext([l EXCEPT !.domIndex = @ + 1,
                                  !.errorAtEnd = pageStats[s].error], tracker)
       IN  /\ requestQueue' =
                IF wasAlreadyPresent THEN requestQueue
                ELSE [k \in DOMAIN requestQueue \union {uniqueKey} |->
                        IF k = uniqueKey THEN request ELSE requestQueue[k]]
           /\ pageStats' =
                IF wasAlreadyPresent THEN pageStats
                ELSE [pageStats EXCEPT ![s].totalEnqueued = @ + 1,
                                       ![s].enqueued = @ + 1]
           /\ loop' = [loop EXCEPT ![s] = r.l]
           /\ tracker' = r.t
    /\ UNCHANGED LoopFrame

\* stop conditions that look at the pending error last
StopReason_ErrorLast(noMoreResults, empties, ps, canEnqueue, zoomedOut) ==
    IF noMoreResults THEN "EndOfResults"
    ELSE IF empties >= EmptyScrollLimit THEN "EmptyScrollLimitExceeded"
    ELSE IF ~canEnqueue THEN "BudgetExhausted"
    ELSE IF cfg.maxAutomaticZoomOut.isNumber
            /\ zoomedOut > cfg.maxAutomaticZoomOut.value THEN "ZoomDriftExceeded"
    ELSE IF ps.totalFound >= cfg.maxPlacesPerPage THEN "MaxPlacesPerPage"
    ELSE IF ps.found > 0 /\ (ps.enqueued + ps.pushed) = 0 THEN "NoNewResultsOnStep"
    ELSE IF ps.error # NoError THEN "DecodeError"
    ELSE ""

\* stop conditions that never ask the tracker
StopReason_NoBudgetTest(noMoreResults, empties, ps, canEnqueue, zoomedOut) ==
    IF noMoreResults THEN "EndOfResults"
    ELSE IF empties >= EmptyScrollLimit THEN "EmptyScrollLimitExceeded"
    ELSE IF ps.error # NoError THEN "DecodeError"
    ELSE IF cfg.maxAutomaticZoomOut.isNumber
            /\ zoomedOut > cfg.maxAutomaticZoomOut.value THEN "ZoomDriftExceeded"
    ELSE IF ps.totalFound >= cfg.maxPlacesPerPage THEN "MaxPlacesPerPage"
    ELSE IF ps.found > 0 /\ (ps.enqueued + ps.pushed) = 0 THEN "NoNewResultsOnStep"
    ELSE ""

\* a pass that tests the zoom after the cap on the places of a page
StopReason_CapBeforeZoom(noMoreResults, empties, ps, canEnqueue, zoomedOut) ==
    IF noMoreResults THEN "EndOfResults"
    ELSE IF empties >= EmptyScrollLimit THEN "EmptyScrollLimitExceeded"
    ELSE IF ps.error # NoError THEN "DecodeError"
    ELSE IF ~canEnqueue THEN "BudgetExhausted"
    ELSE IF ps.totalFound >= cfg.maxPlacesPerPage THEN "MaxPlacesPerPage"
    ELSE IF cfg.maxAutomaticZoomOut.isNumber
            /\ zoomedOut > cfg.maxAutomaticZoomOut.value THEN "ZoomDriftExceeded"
    ELSE IF ps.found > 0 /\ (ps.enqueued + ps.pushed) = 0 THEN "NoNewResultsOnStep"
    ELSE ""

\* a zoom test that stops at the bound already
finishBecauseAutoZoom_AtBound(googleZoomedOut) ==
    /\ cfg.maxAutomaticZoomOut.isNumber
    /\ googleZoomedOut >= cfg.maxAutomaticZoomOut.value

\* lines 531-539: typeof maxAutomaticZoomOut === 'number' and zoomed out too far
finishBecauseAutoZoom(googleZoomedOut) ==
    /\ cfg.maxAutomaticZoomOut.isNumber
    /\ googleZoomedOut > cfg.maxAutomaticZoomOut.value

\* lines 496-561: the stop conditions in the order of the code; "" to go on.
\* empties is numberOfEmptyScrolls after the update of lines 503-507.
StopReason(noMoreResults, empties, ps, canEnqueue, zoomedOut) ==
    IF noMoreResults THEN "EndOfResults"
    ELSE IF empties >= EmptyScrollLimit THEN "EmptyScrollLimitExceeded"
    ELSE IF ps.error # NoError THEN "DecodeError"
    ELSE IF ~canEnqueue THEN "BudgetExhausted"
    ELSE IF finishBecauseAutoZoom(zoomedOut) THEN "ZoomDriftExceeded"
    ELSE IF ps.totalFound >= cfg.maxPlacesPerPage THEN "MaxPlacesPerPage"
    ELSE IF ps.found > 0 /\ (ps.enqueued + ps.pushed) = 0 THEN "NoNewResultsOnStep"
    ELSE ""

\* a counter that is reset at every pass
NextEmptyScrolls_AlwaysResets(l, ps) == 0

\* a counter of the passes since the first one
NextEmptyScrolls_NeverResets(l, ps) == l.numberOfEmptyScrolls + 1

\* lines 503-507: numberOfEmptyScrolls after this pass
NextEmptyScrolls(l, ps) ==
    IF l.lastNumberOfResultsLoadedTotally = ps.totalFound
    THEN l.numberOfEmptyScrolls + 1 ELSE 0

\* lines 483-561: one pass over the stop conditions; noMoreResults is what
\* the page shows of the end-of-list marker, actualZoom the zoom of its url
StopCheckWith(s, noMoreResults, actualZoom) ==
    /\ loop[s].pc = "check"
    /\ LET l == loop[s]
           ps == pageStats[s]
           empties == NextEmptyScrolls(l, ps)
           l1 == IF noMoreResults THEN l
                 ELSE [l EXCEPT !.numberOfEmptyScrolls = empties,
                                !.lastNumberOfResultsLoadedTotally = ps.totalFound]
           reason == StopReason(noMoreResults, empties, ps,
                                canEnqueueMore(tracker, SearchKey(s)),
                                l.startZoom - actualZoom)
       IN  loop' = [loop EXCEPT ![s] =
                CASE reason = "" -> [l1 EXCEPT !.pc = "scroll"]
                  [] reason = "DecodeError" -> Throw(l1, reason, ps.error)
                  [] OTHER -> Return(l1, reason, ps.error)]
    /\ UNCHANGED <<LoopFrame, pageStats, tracker, requestQueue>>

StopCheck(s) ==
    \E noMoreResults \in cfg.endOfList, actualZoom \in cfg.zooms :
       StopCheckWith(s, noMoreResults, actualZoom)

\* lines 563-576: scroll the panel; pageNum counts the scrolls
Scroll(s) ==
    /\ loop[s].pc = "scroll"
    /\ pageStats[s].pageNum < cfg.maxPageNum
    /\ pageStats' = [pageStats EXCEPT ![s].pageNum = @ + 1]
    /\ loop' = [loop EXCEPT ![s].pc = "top"]
    /\ UNCHANGED <<LoopFrame, tracker, requestQueue>>

(***************************************************************************)
(* Runs                                                                    *)
(***************************************************************************)
MaxResponses == 2
MaxPageNum == 4
LongPageNum == 12

\* a search response {"c":0,"d":")]}'\n[...]"}/*""*/ holding the given places
SearchBody(places) ==
    <<TextOf(Envelope(JStr(<<Guard, Ws, TextOf(List(places))>>))), Comment>>
\* a detail preview response )]}'\n[...] holding the place at slot 6
PreviewBody(place) == <<Guard, Ws, TextOf(JArr(7, (6 :> place)))>>

Response(url, body, ech) == [url |-> url, body |-> body, ech |-> ech]

SearchKeys == {"k1", "k2"}

NoGeolocation == [present |-> FALSE, points |-> {}]
\* after scale correction PA lies at <<1, 2>>, PB at <<3, 4>>, PC at <<5, 6>>
Geolocation == [present |-> TRUE, points |-> {<<1, 2>>, <<3, 4>>}]

NoZoomLimit == [isNumber |-> FALSE, value |-> 0]
ZoomLimit(n) == [isNumber |-> TRUE, value |-> n]

BaseCfg ==
    [ sessions |-> {1},
      handlers |-> {1},
      searchKey |-> [s \in Sessions |-> "k1"],
      exportPlaceUrls |-> FALSE,
      hasDeduper |-> TRUE,
      geolocation |-> NoGeolocation,
      maxAutomaticZoomOut |-> NoZoomLimit,
      maxCrawledPlaces |-> -1,
      maxCrawledPlacesPerSearch |-> -1,
      maxPlacesPerPage |-> 120,
      maxResponses |-> MaxResponses,
      maxPageNum |-> MaxPageNum,
      responses |-> <<>>,
      zooms |-> {15},
      endOfList |-> {FALSE},
      domPlaces |-> {<<>>},
      preQueued |-> {},
      mayThrow |-> FALSE,
      script |-> [quiet |-> 0, timedOut |-> FALSE, sig |-> NoSignal],
      checks |-> [endAt |-> 0, zoomAt |-> 0, zoom |-> 15] ]

InitPageStats ==
    [error |-> NoError, isDataPage |-> FALSE, enqueued |-> 0, pushed |-> 0,
     totalEnqueued |-> 0, totalPushed |-> 0, found |-> 0, totalFound |-> 0,
     pageNum |-> 1]

InitLoop(s, active) ==
    [pc |-> IF active THEN "start" ELSE "idle", sess |-> s, polls |-> 0,
     startZoom |-> 0, numberOfEmptyScrolls |-> 0,
     lastNumberOfResultsLoadedTotally |-> 0, useDOMFallback |-> FALSE,
     domPlaces |-> <<>>, domIndex |-> 1, reason |-> "", errorAtEnd |-> NoError]

PreRequest == [rank |-> 0, resp |-> 0, searchKey |-> "k0", coords |-> JUndef,
               isAdvertisement |-> FALSE]

CrawlInit ==
    /\ pageStats = [s \in Sessions |-> InitPageStats]
    /\ loop = [s \in Sessions |-> InitLoop(s, s \in cfg.sessions)]
    /\ handler = [h \in Handlers |-> IdleHandler]
    /\ tracker = [enqueuedTotal |-> 0, enqueuedPerSearch |-> [k \in SearchKeys |-> 0],
                  scrapedTotal |-> 0, scrapedPerSearch |-> [k \in SearchKeys |-> 0],
                  reachedLimit |-> FALSE]
    /\ requestQueue = [k \in cfg.preQueued |-> PreRequest]
    /\ placesCache = [k \in {} |-> NoCoords]
    /\ exportSeen = {}
    /\ dataset = <<>>
    /\ stats = 0
    /\ delivered = [s \in Sessions |-> 0]
    /\ completed = [s \in Sessions |-> <<>>]

DecoderIdle ==
    /\ dBody = <<>>
    /\ dKind = "SearchPage"
    /\ dResult = <<>>
    /\ dInner = <<>>

HandlerStep(hid) ==
    \/ HandleBody(hid)
    \/ AddRequestResolved(hid)
    \/ PushDataResolved(hid)
    \/ AbortResolved(hid)
    \/ HandlerThrows(hid)

LoopStep(s) ==
    \/ StartSearch(s)
    \/ AwaitOutcome(s)
    \/ SinglePlaceWait(s)
    \/ LoopTop(s)
    \/ DomAddResolved(s)
    \/ StopCheck(s)
    \/ Scroll(s)

Next ==
    \/ \E hid \in Handlers, s \in Sessions : HandleResponse(hid, s)
    \/ \E hid \in Handlers : HandlerStep(hid)
    \/ \E s \in Sessions : LoopStep(s)

(***************************************************************************)
(* Spec: one session, default mode and export mode                         *)
(***************************************************************************)
JunkBody == <<Txt("junk", 4)>>

DefaultCfg ==
    [BaseCfg EXCEPT
       !.geolocation = Geolocation,
       !.maxCrawledPlaces = 3,
       !.maxAutomaticZoomOut = ZoomLimit(1),
       !.zooms = {15, 13},
       !.endOfList = BOOLEAN,
       !.maxPlacesPerPage = 5,
       !.domPlaces = {<<>>, <<"A", "D">>},
       !.mayThrow = TRUE,
       !.responses = << Response("search", SearchBody(<<PA, PC, PB>>), 1),
                        Response("rpc", SearchBody(<<PB, PA>>), 2),
                        Response("search", JunkBody, 2),
                        Response("preview", PreviewBody(PA), 1),
                        Response("other", JunkBody, 1) >> ]

ExportCfg ==
    [BaseCfg EXCEPT
       !.exportPlaceUrls = TRUE,
       !.maxCrawledPlaces = 2,
       !.maxResponses = 2,
       !.maxPageNum = 3,
       !.responses = << Response("search", SearchBody(<<PA, PB>>), 1),
                        Response("search", SearchBody(<<PB, PC>>), 2) >> ]

\* a long session that is given one response at most
LongCfg ==
    [BaseCfg EXCEPT
       !.maxResponses = 1,
       !.maxPageNum = LongPageNum,
       !.responses = << Response("search", SearchBody(<<PA, PB>>), 1) >> ]

Init ==
    /\ cfg \in {DefaultCfg, ExportCfg, LongCfg}
    /\ CrawlInit
    /\ DecoderIdle

Spec == Init /\ [][Next]_vars

(***************************************************************************)
(* SpecDecode: the decoder applied to every bounded body, for both kinds   *)
(***************************************************************************)
\* the run of a decoder check: no session is active
DecodeCfg == [BaseCfg EXCEPT !.sessions = {}, !.handlers = {}]

\* the JSON value of a body that is one JSON text framed by whitespace and at
\* most one trailing comment marker; JUndef for any other body
FramedDoc(body) ==
    LET js == {i \in 1..Len(body) : body[i].k = "json"}
        cs == {i \in 1..Len(body) : body[i].k = "comment"}
        others == {i \in 1..Len(body) : body[i].k \notin {"json", "comment", "ws"}}
    IN  IF Cardinality(js) = 1 /\ others = {} /\ Cardinality(cs) <= 1
           /\ \A c \in cs : \A j \in js : j < c
        THEN body[CHOOSE j \in js : TRUE].v
        ELSE JUndef

\* text that is the guard prefix, optional whitespace and one JSON text
IsGuardedText(s) ==
    /\ Len(s) >= 2
    /\ s[1].k = "guard"
    /\ s[Len(s)].k = "json"
    /\ \A i \in 2..(Len(s) - 1) : s[i].k = "ws"

\* a valid two-layer-wrapped payload: an envelope whose field d holds the
\* guard-prefixed, string-encoded inner document
IsWrappedBody(body) ==
    LET doc == FramedDoc(body)
    IN  /\ doc.t = "obj"
        /\ "d" \in DOMAIN doc.f
        /\ doc.f.d.t = "str"
        /\ IsGuardedText(doc.f.d.s)

\* the text of the inner document of a wrapped body
InnerText(body) == FramedDoc(body).f.d.s

InitDecode ==
    /\ cfg = DecodeCfg
    /\ CrawlInit
    /\ \E i \in 1..Len(Prefixes), j \in 1..Len(Cores), k \in 1..Len(Suffixes) :
         dBody = Prefixes[i] \o Cores[j] \o Suffixes[k]
    /\ dKind \in Kinds
    /\ dResult = <<>>
    /\ dInner = <<>>

\* decode the body
Decode ==
    /\ dResult = <<>>
    /\ dResult' = <<parseSearchPlacesResponseBody(dBody, dKind = "DetailPreview")>>
    /\ UNCHANGED <<cfg, dBody, dKind, dInner, crawlVars>>

\* decode the inner document of a wrapped body directly
DecodeInner ==
    /\ dInner = <<>>
    /\ IsWrappedBody(dBody)
    /\ dInner' = <<parseSearchPlacesResponseBody(InnerText(dBody),
                                                 dKind = "DetailPreview")>>
    /\ UNCHANGED <<cfg, dBody, dKind, dResult, crawlVars>>

NextDecode == Decode \/ DecodeInner

SpecDecode == InitDecode /\ [][NextDecode]_vars

Decoded == dResult # <<>>
Result == dResult[1]
Places == Result.placesPaginationData

(***************************************************************************)
(* SpecScenario: one session in default mode without geofence and limits.  *)
(* The first scroll step decodes a response of five new places; either     *)
(* every later step decodes the same five places again, or no later step   *)
(* decodes anything.  A step's response is processed completely before the *)
(* step's stop conditions are looked at.                                   *)
(***************************************************************************)
ScenarioSteps == 11

PD == Place(Id("D"), 70, 80)
PE == Place(Id("E"), 90, 100)

ScenarioCfg(repeats) ==
    [BaseCfg EXCEPT
       !.maxResponses = IF repeats THEN ScenarioSteps ELSE 1,
       !.maxPageNum = ScenarioSteps + 1,
       !.responses = << Response("search", SearchBody(<<PA, PB, PC, PD, PE>>), 1) >> ]

InitScenario ==
    /\ cfg \in {ScenarioCfg(repeats) : repeats \in BOOLEAN}
    /\ CrawlInit
    /\ DecoderIdle

\* the number of responses due up to the current step
Due(s) ==
    IF pageStats[s].pageNum < cfg.maxResponses
    THEN pageStats[s].pageNum ELSE cfg.maxResponses

ScenarioResponse ==
    /\ delivered[1] < Due(1)
    /\ HandleResponse(1, 1)

ScenarioCheck ==
    /\ handler[1] = IdleHandler
    /\ delivered[1] = Due(1)
    /\ StopCheck(1)

NextScenario ==
    \/ ScenarioResponse
    \/ HandleBody(1)
    \/ AddRequestResolved(1)
    \/ StartSearch(1)
    \/ AwaitOutcome(1)
    \/ SinglePlaceWait(1)
    \/ LoopTop(1)
    \/ ScenarioCheck
    \/ Scroll(1)

SpecScenario == InitScenario /\ [][NextScenario]_vars

(***************************************************************************)
(* SpecBudget: two sessions with a search key each share the tracker, the  *)
(* request queue and a limit on the places of the run.  Each session is    *)
(* given one response; the two batches overlap.  The runs start where both *)
(* searches have shown their result lists: StartSearch and AwaitOutcome,   *)
(* which change nothing but the session's own position, lie behind them.   *)
(***************************************************************************)
GlobalLimit == 10
BatchLen == 6
Overlap == 1

IdChars == <<"A", "B", "C", "D", "E", "F", "G", "H", "I", "J", "K", "L", "M", "N",
             "O", "P">>
PlaceNo(i) == Place(Id(IdChars[i]), 10, 20)
Batch(from) == [i \in 1..BatchLen |-> PlaceNo(from + i - 1)]

BudgetCfg ==
    [BaseCfg EXCEPT
       !.sessions = {1, 2},
       !.handlers = {1, 2},
       !.searchKey = <<"k1", "k2">>,
       !.maxCrawledPlaces = GlobalLimit,
       !.maxResponses = 1,
       !.maxPageNum = 2,
       !.responses = << Response("search", SearchBody(Batch(1)), 1),
                        Response("search", SearchBody(Batch(BatchLen - Overlap + 1)), 1) >> ]

Scrolling(s) == [InitLoop(s, TRUE) EXCEPT !.pc = "top", !.startZoom = 15]

InitBudget ==
    /\ cfg = BudgetCfg
    /\ pageStats = [s \in Sessions |-> InitPageStats]
    /\ loop = [s \in Sessions |-> Scrolling(s)]
    /\ handler = [h \in Handlers |-> IdleHandler]
    /\ tracker = [enqueuedTotal |-> 0, enqueuedPerSearch |-> [k \in SearchKeys |-> 0],
                  scrapedTotal |-> 0, scrapedPerSearch |-> [k \in SearchKeys |-> 0],
                  reachedLimit |-> FALSE]
    /\ requestQueue = [k \in {} |-> PreRequest]
    /\ placesCache = [k \in {} |-> NoCoords]
    /\ exportSeen = {}
    /\ dataset = <<>>
    /\ stats = 0
    /\ delivered = [s \in Sessions |-> 0]
    /\ completed = [s \in Sessions |-> <<>>]
    /\ DecoderIdle

\* each session's page has a response handler of its own
NextBudget ==
    \/ \E s \in Sessions : HandleResponse(s, s)
    \/ \E hid \in Handlers : HandleBody(hid)
    \/ \E hid \in Handlers : AddRequestResolved(hid)
    \/ \E s \in Sessions : LoopTop(s)
    \/ \E s \in Sessions : StopCheck(s)
    \/ \E s \in Sessions : Scroll(s)

SpecBudget == InitBudget /\ [][NextBudget]_vars

(***************************************************************************)
(* Claims about the decoder (SpecDecode)                                   *)
(***************************************************************************)
Inner == dInner[1]
IsOk(r) == r.error = NoError

\* C3: for every valid two-layer-wrapped payload and for each response kind,
\* decode returns the same Records and the same error status as decode of the
\* unwrapped inner document.
C3_WrappedAgreesWithInner ==
    (Decoded /\ dInner # <<>>) =>
        /\ Places = Inner.placesPaginationData
        /\ IsOk(Result) <=> IsOk(Inner)

SameId(a, b) == a.t = b.t /\ a = b

\* C4: the output of one SearchPage decode call never contains two Records
\* with the same id.
C4_NoTwoRecordsShareAnId ==
    (Decoded /\ dKind = "SearchPage") =>
        \A i, j \in 1..Len(Places) :
            (i < j /\ Truthy(Places[i].placeId)) =>
                ~SameId(Places[i].placeId, Places[j].placeId)

Positions(body, kind) == {i \in 1..Len(body) : body[i].k = kind}

\* a body made of nothing but whitespace, at most one leading guard prefix and
\* at most one trailing comment marker
IsEmptyFramed(body) ==
    /\ \A i \in 1..Len(body) : body[i].k \in {"ws", "guard", "comment"}
    /\ Cardinality(Positions(body, "guard")) <= 1
    /\ Cardinality(Positions(body, "comment")) <= 1
    /\ \A g \in Positions(body, "guard"), c \in Positions(body, "comment") : g < c

\* the first piece that is not whitespace is an HTML document marker
BeginsWithHtml(body) ==
    \E i \in 1..Len(body) :
        /\ body[i].k = "html"
        /\ \A j \in 1..(i - 1) : body[j].k = "ws"

FirstAttempt(body) == JSONparse(cleanGoogleResponse(body))
SecondAttempt(body) == JSONparse(cleanGoogleResponse(cleanGoogleResponse(body)))
ThirdAttempt(body) ==
    unstringifyGoogleXrhResponse(JStr(cleanGoogleResponse(cleanGoogleResponse(body))))
SomeAttemptParses(body) ==
    FirstAttempt(body).ok \/ SecondAttempt(body).ok \/ ThirdAttempt(body).ok
IsCandidateText(body) ==
    /\ cleanGoogleResponse(body) # <<>>
    /\ ~StartsWithHtml(cleanGoogleResponse(body))

\* C7: a body failing all three parse attempts gives the unparseable error
\* with the parser message and no Records; a result without error arises only
\* from a body that was parsed.
C7_HardErrorIsNeverEmptySuccess ==
    Decoded =>
        /\ (IsCandidateText(dBody) /\ ~SomeAttemptParses(dBody)) =>
              Result.error = ErrNoJson /\ Places = <<>>
        /\ IsOk(Result) => (IsCandidateText(dBody) /\ SomeAttemptParses(dBody))

C7_Witness ==
    /\ Decoded
    /\ Positions(dBody, "json") # {}
    /\ ~SomeAttemptParses(dBody)
    /\ Result.error = ErrNoJson
    /\ Result.attempts = 3

\* the tree a body parses to, JUndef if it does not parse
ParsedTree(body) ==
    IF ~IsCandidateText(body) THEN JUndef
    ELSE IF FirstAttempt(body).ok THEN FirstAttempt(body).v
    ELSE IF SecondAttempt(body).ok THEN SecondAttempt(body).v
    ELSE JUndef

\* the fixed position of the place in a detail preview
PlaceSlot == 6

\* C8 as stated: for DetailPreview kind, a parsed payload without a place at
\* the fixed position decodes to zero Records with no error.
C8_MissingPlaceIsEmptySuccess ==
    ( /\ Decoded
      /\ dKind = "DetailPreview"
      /\ ParsedTree(dBody) # JUndef
      /\ ~Truthy(Get(ParsedTree(dBody), PlaceSlot)) ) =>
        Places = <<>> /\ IsOk(Result)

\* C8 amended: the same for a parsed payload that is not JSON null; a body
\* that parses to null gives the parsing error.
C8_MissingPlaceOfNonNullPayload ==
    ( /\ Decoded
      /\ dKind = "DetailPreview"
      /\ ParsedTree(dBody) # JUndef )
    => /\ ( /\ ParsedTree(dBody).t # "null"
            /\ ~Truthy(Get(ParsedTree(dBody), PlaceSlot)) )
          => (Places = <<>> /\ IsOk(Result))
       /\ ParsedTree(dBody).t = "null"
          => (Places = <<>> /\ Result.error = ErrParsing)

C8_Witness ==
    /\ Decoded
    /\ dKind = "DetailPreview"
    /\ ParsedTree(dBody).t = "arr"
    /\ Length(ParsedTree(dBody)) > PlaceSlot
    /\ Get(ParsedTree(dBody), PlaceSlot).t = "null"
    /\ Places = <<>>
    /\ IsOk(Result)

(***************************************************************************)
(* Claims about the session and the response handler (Spec)                *)
(***************************************************************************)
ScrollEnds == {"EndOfResults", "EmptyScrollLimitExceeded", "BudgetExhausted",
               "ZoomDriftExceeded", "MaxPlacesPerPage", "NoNewResultsOnStep",
               "DomFallback"}
\* terminations the loop looks at before it looks at the pending error
EarlierEnds == {"EndOfResults", "EmptyScrollLimitExceeded", "DomFallback"}

EndedGracefully(s) == loop[s].pc = "returned" /\ loop[s].reason \in ScrollEnds
ErrorPendingAtEnd(s) == loop[s].errorAtEnd # NoError

\* C2 as stated: a session that reached the scroll loop never ends with a
\* graceful termination while a decode error is pending.
C2_ErrorNeverSwallowed ==
    \A s \in Sessions : EndedGracefully(s) => ~ErrorPendingAtEnd(s)

\* C2 amended: with a decode error pending, a session in the scroll loop ends
\* gracefully only by the end-of-results signal, the empty-scroll limit or the
\* DOM fallback, which the loop looks at first; a session that stops for any
\* other reason while the error is pending ends by the throw, which carries
\* the error.
C2_ErrorOutranksLaterStops ==
    \A s \in Sessions :
        /\ (EndedGracefully(s) /\ ErrorPendingAtEnd(s)) =>
              loop[s].reason \in EarlierEnds
        /\ (loop[s].pc = "thrown" /\ loop[s].reason = "DecodeError") =>
              ErrorPendingAtEnd(s)

C2_Witness ==
    \E s \in Sessions :
        /\ loop[s].pc = "thrown"
        /\ loop[s].reason = "DecodeError"
        /\ loop[s].errorAtEnd = ErrNoJson
        /\ pageStats[s].pageNum > 1

\* the requests the response handler put into the queue
HandlerRequests == {k \in DOMAIN requestQueue : requestQueue[k].resp > 0}

\* the key of the Record at the 0-based position offset of handler hid's batch
KeyAt(hid, offset) == KeyOf(handler[hid].places[offset + 1].placeId)

\* handler hid gets the Record it is at into the queue
Enqueues(hid) ==
    /\ handler[hid].pc = "addRequest"
    /\ handler'[hid] # handler[hid]
    /\ KeyAt(hid, handler[hid].index) \notin DOMAIN requestQueue
    /\ KeyAt(hid, handler[hid].index) \in DOMAIN requestQueue'

\* the 0-based position of the Record with key k in the batch of handler hid
OffsetOf(hid, k) ==
    CHOOSE i \in 0..(Len(handler[hid].places) - 1) : KeyAt(hid, i) = k

\* C5: the rank attached to the Record at 0-based position offset of the
\* batch of a response with page index pageIndex is
\* (pageIndex - 1) * 20 + offset + 1, and ranks increase strictly with the
\* position within a page.
C5_RankFormula ==
    [][\A hid \in Handlers :
         Enqueues(hid) =>
            LET pageIndex == cfg.responses[handler[hid].resp].ech
                offset == handler[hid].index
                rank == requestQueue'[KeyAt(hid, offset)].rank
            IN  /\ rank = (pageIndex - 1) * 20 + offset + 1
                /\ \A k2 \in HandlerRequests :
                     requestQueue[k2].resp = handler[hid].resp =>
                        /\ OffsetOf(hid, k2) < offset => requestQueue[k2].rank < rank
                        /\ OffsetOf(hid, k2) > offset => requestQueue[k2].rank > rank]_vars

C5_Witness ==
    \E k1, k2 \in HandlerRequests :
        /\ requestQueue[k1].resp = requestQueue[k2].resp
        /\ cfg.responses[requestQueue[k1].resp].ech = 2
        /\ requestQueue[k1].rank = 21
        /\ requestQueue[k2].rank = 22

(***************************************************************************)
(* Claims about the scenario (SpecScenario)                                *)
(***************************************************************************)
Repeating == cfg.maxResponses = ScenarioSteps
ScrollingEnded ==
    /\ loop[1].pc \in {"returned", "thrown"}
    /\ loop[1].reason \in ScrollEnds \union {"DecodeError"}
EndedAfterStep(n, reason) ==
    /\ loop[1].pc = "returned"
    /\ loop[1].reason = reason
    /\ pageStats[1].pageNum = n
Totals(found, enqueued) ==
    /\ pageStats[1].totalFound = found
    /\ pageStats[1].totalEnqueued = enqueued
    /\ tracker.enqueuedTotal = enqueued

\* C1 as stated: the session that decodes five new Records on step 1 and the
\* same five Records on every later step ends after step 11 by the limit of
\* ten empty steps, with totalFound = 5 and enqueued = 5.
C1_EndsAfterStepElevenWithFive ==
    (Repeating /\ ScrollingEnded) =>
        /\ EndedAfterStep(11, "EmptyScrollLimitExceeded")
        /\ Totals(5, 5)

\* C1 amended: that session ends after step 2, because the step found Records
\* but none of them was new, with totalFound = 10 (every decoded Record counts,
\* duplicates too) and enqueued = 5.  The end after step 11 by the limit of ten
\* empty steps, with totalFound = 5 and enqueued = 5, is that of the session
\* whose steps 2 to 11 decode nothing.
C1_EndsAfterStepTwoWithTen ==
    ScrollingEnded =>
        IF Repeating
        THEN EndedAfterStep(2, "NoNewResultsOnStep") /\ Totals(10, 5)
        ELSE EndedAfterStep(11, "EmptyScrollLimitExceeded") /\ Totals(5, 5)

C1_Witness ==
    /\ Repeating
    /\ EndedAfterStep(2, "NoNewResultsOnStep")
    /\ Totals(10, 5)
    /\ Len(completed[1]) = 2
    /\ completed[1][2] = <<2, 5, 0>>

(***************************************************************************)
(* Claims about the budget (SpecBudget)                                    *)
(***************************************************************************)
RECURSIVE SumOver(_, _)
SumOver(f, keys) ==
    IF keys = {} THEN 0
    ELSE LET k == CHOOSE x \in keys : TRUE
         IN  f[k] + SumOver(f, keys \ {k})

\* the entries of the batch a session's response was decoded to, as
\* <<step, found, new>>
Shortfall(s) ==
    /\ completed[s] # <<>>
    /\ completed[s][1][3] < completed[s][1][2]

\* C9: after any sequence of reservations and releases, the handler's own
\* compensating decrement for a duplicate included, enqueuedTotal equals the
\* sum of enqueuedPerSearch over all search keys.
C9_TotalIsSumOfPerSearch ==
    tracker.enqueuedTotal = SumOver(tracker.enqueuedPerSearch, SearchKeys)

C9_Witness ==
    /\ \A s \in Sessions : Shortfall(s) /\ tracker.enqueuedPerSearch[SearchKey(s)] > 0
    /\ tracker.enqueuedTotal < GlobalLimit
    /\ tracker.enqueuedTotal = Cardinality(DOMAIN requestQueue)

\* the reservations that are outstanding: those that became a request and
\* those whose addRequest is under way
Outstanding ==
    Cardinality(HandlerRequests)
        + Cardinality({hid \in Handlers : handler[hid].pc = "addRequest"})

\* C10: with a limit of 10 places and two sessions sharing the tracker, under
\* every interleaving at most 10 reservations are outstanding; at the limit a
\* further attempt is refused, whichever session makes it.
C10_AtMostLimitReservations ==
    /\ tracker.enqueuedTotal <= GlobalLimit
    /\ Outstanding <= GlobalLimit

C10_Witness ==
    /\ tracker.enqueuedTotal = GlobalLimit
    /\ Outstanding = GlobalLimit
    /\ \A s \in Sessions :
         /\ tracker.enqueuedPerSearch[SearchKey(s)] > 0
         /\ Shortfall(s)
    /\ \A hid \in Handlers : handler[hid] = IdleHandler

\* the requests the handlers of the search searchKey put into the queue
RequestsOf(searchKey) ==
    {k \in HandlerRequests : requestQueue[k].searchKey = searchKey}

\* the handlers of the search searchKey whose addRequest is under way
Submitting(searchKey) ==
    {hid \in Handlers : /\ handler[hid].pc = "addRequest"
                        /\ SearchKey(handler[hid].sess) = searchKey}

\* what the completely processed batches of session s counted as enqueued
RECURSIVE CountedNew(_, _)
CountedNew(s, n) ==
    IF n = 0 THEN 0 ELSE completed[s][n][3] + CountedNew(s, n - 1)

\* C11: in default mode a Record counts as enqueued only if the queue reports
\* its key as new; for a duplicate the reservation is released in both
\* counters, so that the tracker holds exactly the requests newly added plus
\* the submissions under way, and each completely processed batch counted
\* exactly its newly added requests.
C11_EnqueuedCountsNewRequestsOnly ==
    /\ \A key \in SearchKeys :
         tracker.enqueuedPerSearch[key] =
            Cardinality(RequestsOf(key)) + Cardinality(Submitting(key))
    /\ tracker.enqueuedTotal = Outstanding
    /\ \A s \in Sessions :
         /\ pageStats[s].totalEnqueued = CountedNew(s, Len(completed[s]))
         /\ (Submitting(SearchKey(s)) = {} /\ handler[s] = IdleHandler) =>
               pageStats[s].totalEnqueued = Cardinality(RequestsOf(SearchKey(s)))

C11_Witness ==
    /\ \A hid \in Handlers : handler[hid] = IdleHandler
    /\ \A s \in Sessions :
         /\ completed[s] # <<>>
         /\ completed[s][1][2] = BatchLen
         /\ pageStats[s].totalEnqueued > 0
         /\ pageStats[s].totalEnqueued < BatchLen
    /\ Cardinality(HandlerRequests) = BatchLen
    /\ tracker.enqueuedTotal = BatchLen

\* session s passes over its stop conditions in this step
ChecksStop(s) == loop[s].pc = "check" /\ loop'[s] # loop[s]

\* the reservations of session s whose outcome is not applied yet
Unsettled(s) ==
    {hid \in Handlers : handler[hid].pc = "addRequest" /\ handler[hid].sess = s}

\* C12: no pass over the stop conditions sees a reservation that has been
\* taken but whose outcome, the enqueued increment or the release, is not
\* applied yet.
C12_ChecksSeeSettledReservations ==
    [][\A s \in Sessions : ChecksStop(s) => Unsettled(s) = {}]_vars

Ended(s) == loop[s].pc \in {"returned", "thrown"}
LimitSet == cfg.maxCrawledPlaces >= 0

LimitSettled == LimitSet /\ Cardinality(HandlerRequests) >= cfg.maxCrawledPlaces

Scripts ==
    {sc \in [quiet : 0..MaxPolls, timedOut : BOOLEAN, sig : Signals] :
        /\ sc.timedOut => sc.quiet > 0
        /\ (sc.sig = NoSignal /\ ~sc.timedOut) => sc.quiet < MaxPolls}

OutcomeCfg(sc) ==
    [BaseCfg EXCEPT
       !.maxResponses = 1,
       !.maxPageNum = 2,
       !.endOfList = BOOLEAN,
       !.responses = << Response("search", SearchBody(<<PA, PB>>), 1),
                        Response("preview", PreviewBody(PA), 1) >>,
       !.script = sc]

\* what poll number n (from 0) of the session finds
Observation(n) ==
    IF n < cfg.script.quiet THEN [timedOut |-> FALSE, sig |-> NoSignal]
    ELSE IF n = cfg.script.quiet
    THEN [timedOut |-> cfg.script.timedOut, sig |-> cfg.script.sig]
    ELSE [timedOut |-> TRUE, sig |-> NoSignal]

ScriptedPoll(s) ==
    /\ loop[s].pc = "outcome"
    /\ Poll(s, Observation(loop[s].polls).timedOut, Observation(loop[s].polls).sig)

InitOutcome ==
    /\ cfg \in {OutcomeCfg(sc) : sc \in Scripts}
    /\ CrawlInit
    /\ DecoderIdle

NextOutcome ==
    \/ \E s \in Sessions : StartSearch(s)
    \/ \E s \in Sessions : ScriptedPoll(s)
    \/ \E s \in Sessions : SinglePlaceWait(s)
    \/ \E s \in Sessions : LoopTop(s)
    \/ \E s \in Sessions : StopCheck(s)
    \/ \E s \in Sessions : Scroll(s)
    \/ \E hid \in Handlers, s \in Sessions : HandleResponse(hid, s)
    \/ \E hid \in Handlers : HandleBody(hid)
    \/ \E hid \in Handlers : AddRequestResolved(hid)

SpecOutcome == InitOutcome /\ [][NextOutcome]_vars

\* the session function goes on after each of its awaits: the click resolves
\* and the delay between two polls ends
SpecOutcomeLive ==
    /\ SpecOutcome
    /\ \A s \in Sessions : WF_vars(StartSearch(s)) /\ WF_vars(ScriptedPoll(s))

(***************************************************************************)
(* SpecBatch: the response handler alone, on batches whose Records share   *)
(* ids, lie inside and outside the geofence and come with and without      *)
(* coordinates, in default and in export mode                              *)
(***************************************************************************)
\* place A seen elsewhere, outside the geofence
PAFar == Place(Id("A"), 50, 60)
\* place B seen where A was, inside the geofence
PBMoved == Place(Id("B"), 10, 20)
\* places A and C without a coordinate slot: no candidates for an organic
\* result (line 781), decoded as advertisements only
PA0 == JArr(PlaceLen, (78 :> Id("A")))
PC0 == JArr(PlaceLen, (78 :> Id("C")))

\* a search response with advertisements before the organic results
AdsBody(adPlaces, places) ==
    <<TextOf(Envelope(JStr(<<Guard, Ws,
        TextOf(WithAds([i \in 1..Len(adPlaces) |-> Ad(adPlaces[i])], List(places)))>>))),
      Comment>>

GeoCfg ==
    [BaseCfg EXCEPT
       !.handlers = {1, 2},
       !.geolocation = Geolocation,
       !.responses = << Response("search", SearchBody(<<PA, PC, PB>>), 1),
                        Response("search", AdsBody(<<PC0, PA0>>, <<PAFar, PBMoved, PC>>), 2) >> ]
GeoExportCfg == [GeoCfg EXCEPT !.exportPlaceUrls = TRUE, !.maxCrawledPlaces = 2]
PerSearchExportCfg ==
    [GeoCfg EXCEPT !.exportPlaceUrls = TRUE, !.maxCrawledPlaces = -1,
                   !.maxCrawledPlacesPerSearch = 1]

InitBatch ==
    /\ cfg \in {GeoCfg, GeoExportCfg, PerSearchExportCfg}
    /\ pageStats = [s \in Sessions |-> InitPageStats]
    /\ loop = [s \in Sessions |-> IF s \in cfg.sessions THEN Scrolling(s)
                                   ELSE InitLoop(s, FALSE)]
    /\ handler = [h \in Handlers |-> IdleHandler]
    /\ tracker = [enqueuedTotal |-> 0, enqueuedPerSearch |-> [k \in SearchKeys |-> 0],
                  scrapedTotal |-> 0, scrapedPerSearch |-> [k \in SearchKeys |-> 0],
                  reachedLimit |-> FALSE]
    /\ requestQueue = [k \in {} |-> PreRequest]
    /\ placesCache = [k \in {} |-> NoCoords]
    /\ exportSeen = {}
    /\ dataset = <<>>
    /\ stats = 0
    /\ delivered = [s \in Sessions |-> 0]
    /\ completed = [s \in Sessions |-> <<>>]
    /\ DecoderIdle

NextBatch ==
    \/ \E hid \in Handlers, s \in Sessions : HandleResponse(hid, s)
    \/ \E hid \in Handlers : HandleBody(hid)
    \/ \E hid \in Handlers : AddRequestResolved(hid)
    \/ \E hid \in Handlers : PushDataResolved(hid)
    \/ \E hid \in Handlers : AbortResolved(hid)

SpecBatch == InitBatch /\ [][NextBatch]_vars

(***************************************************************************)
(* Claims about the handling of a batch                                    *)
(***************************************************************************)
\* the Record handler hid is at, and its key
RecordAt(h) == h.places[h.index + 1]
\* handler hid comes to the await of the Record it submits or pushes
Arrives(hid) ==
    /\ handler'[hid] # handler[hid]
    /\ handler'[hid].pc \in {"addRequest", "pushData"}

KnownFromCacheOnly(place) ==
    /\ ~CoordsKnown(place.coords)
    /\ KeyOf(place.placeId) \in DOMAIN placesCache
    /\ CoordsKnown(placesCache[KeyOf(place.placeId)])

\* C15: for a Record without coordinates whose id the cache knows, the handler
\* goes on with the cached coordinates, a Record it submits or pushes lies
\* inside the geofence by them, and the cached location stays as it was.
C15_CoordinatesResolvedFromCache ==
    [][\A hid \in Handlers : Arrives(hid) =>
         LET place == RecordAt(handler'[hid])
             key == KeyOf(place.placeId)
         IN  KnownFromCacheOnly(place) =>
               /\ Locate(place, placesCache).coordinates = placesCache[key]
               /\ checkInPolygon(cfg.geolocation, placesCache[key])
               /\ placesCache'[key] = placesCache[key]]_vars

\* the batch handler h works on and the index of the Record it is at
BatchOf(h) ==
    IF h.pc = "text"
    THEN parseSearchPlacesResponseBody(cfg.responses[h.resp].body, FALSE).placesPaginationData
    ELSE h.places
IndexOf(h) == IF h.pc = "text" THEN -1 ELSE h.index

\* the Record lies outside the geofence
Failing(place) == ~checkInPolygon(cfg.geolocation, place.coords)
FailingBetween(places, from, to) ==
    Cardinality({i \in from..to : Failing(places[i + 1])})

\* no limit can end a batch early
Unlimited ==
    ~cfg.exportPlaceUrls /\ cfg.maxCrawledPlaces < 0 /\ cfg.maxCrawledPlacesPerSearch < 0

\* C16: a Record that fails the geofence is never submitted, never pushed and
\* never reserves budget, it is counted as out of polygon, and the handler
\* goes on with the Records after it: the handler only comes to the await of
\* a Record that passes, every step counts just the failing Records it went
\* past, and the tracker counts the submitted and pushed Records only.
C16_FailingRecordIsSkippedAndCounted ==
    [][/\ \A hid \in Handlers :
            (handler'[hid] # handler[hid] /\ handler[hid].pc # "idle") =>
                LET places == BatchOf(handler[hid])
                    from == IndexOf(handler[hid]) + 1
                IN  IF Arrives(hid)
                    THEN /\ ~Failing(RecordAt(handler'[hid]))
                         /\ stats' - stats =
                              FailingBetween(places, from, handler'[hid].index - 1)
                    ELSE /\ stats' - stats <= FailingBetween(places, from, Len(places) - 1)
                         /\ Unlimited =>
                              stats' - stats = FailingBetween(places, from, Len(places) - 1)
       /\ \A k \in HandlerRequests' :
            checkInPolygon(cfg.geolocation, requestQueue'[k].coords)
       /\ tracker'.enqueuedTotal = Outstanding'
       /\ tracker'.scrapedTotal =
            Len(dataset') + Cardinality({hid \in Handlers : handler'[hid].pc = "pushData"})]_vars

\* a handler went past a Record outside the geofence, which was counted, and
\* is at the await of a later Record of the batch
C16_Witness ==
    \E hid \in Handlers :
        /\ handler[hid].pc \in {"addRequest", "pushData"}
        /\ \E i \in 0..(handler[hid].index - 1) : Failing(handler[hid].places[i + 1])
        /\ stats > 0

\* the pushes under way and the pushes the handlers have counted
Pushing == {hid \in Handlers : handler[hid].pc = "pushData"}
RECURSIVE SumPushed(_)
SumPushed(hs) ==
    IF hs = {} THEN 0
    ELSE LET hid == CHOOSE x \in hs : TRUE
         IN  handler[hid].pushed + SumPushed(hs \ {hid})
CountedPushes ==
    SumOver([s \in Sessions |-> pageStats[s].totalPushed], cfg.sessions)
        + SumPushed({hid \in Handlers : handler[hid].pc \in {"pushData", "abort"}})
\* the Records session s has pushed or is pushing; SpecBatch runs one session
PushesOf(s) == Len(dataset) + Cardinality(Pushing)

ExportNoIdPushedTwice ==
    /\ \A i, j \in 1..Len(dataset) : dataset[i] = dataset[j] => i = j
    /\ \A hid \in Pushing :
         /\ \A i \in 1..Len(dataset) : dataset[i] # KeyOf(RecordAt(handler[hid]).placeId)
         /\ \A other \in Pushing \ {hid} :
              KeyOf(RecordAt(handler[other]).placeId) # KeyOf(RecordAt(handler[hid]).placeId)
ExportGlobalBudgetKept ==
    cfg.maxCrawledPlaces >= 0 => Len(dataset) + Cardinality(Pushing) <= cfg.maxCrawledPlaces
ExportSessionBudgetKept ==
    cfg.maxCrawledPlacesPerSearch >= 0 =>
        \A s \in cfg.sessions : PushesOf(s) <= cfg.maxCrawledPlacesPerSearch
ExportPushedCountsPushes ==
    CountedPushes = Len(dataset) + Cardinality(Pushing)

\* C17: in export mode no id is pushed twice, no Record is pushed beyond the
\* limit of the run or beyond the limit of its search, and pushed counts
\* every push once.
C17_ExportPushesOncePerIdWithinBudget ==
    cfg.exportPlaceUrls =>
        /\ ExportNoIdPushedTwice
        /\ ExportGlobalBudgetKept
        /\ ExportSessionBudgetKept
        /\ ExportPushedCountsPushes

(***************************************************************************)
(* Claims about the outcome of the search                                  *)
(***************************************************************************)
\* session s takes a poll
Polls(s) == loop[s].pc = "outcome" /\ loop'[s] # loop[s]
\* what the poll session s is about to take finds
Seen(s) == Observation(loop[s].polls)

\* C18: a poll inside the window decides by the first signal that shows, in
\* the order badQuery, noResults, placeDetail, hasResults, whatever signals
\* show besides it, and the session goes exactly one way: it returns for a bad
\* query or for no results, waits for the single place, starts to scroll, or
\* polls again when nothing shows.
C18_FirstSignalInPriorityOrderDecides ==
    [][\A s \in Sessions : (Polls(s) /\ ~Seen(s).timedOut) =>
         LET sig == Seen(s).sig
             l == loop'[s]
         IN  IF sig.badQuery THEN l.pc = "returned" /\ l.reason = "BadQuery"
             ELSE IF sig.noResults THEN l.pc = "returned" /\ l.reason = "NoResults"
             ELSE IF sig.placeDetail THEN l.pc = "single"
             ELSE IF sig.hasResults THEN l.pc = "top"
             ELSE l.pc = "outcome" /\ l.polls = loop[s].polls + 1]_vars

\* a session went to wait for the single place although the result list showed
\* at the same poll
C18_Witness ==
    \E s \in Sessions :
        /\ loop[s].pc = "single"
        /\ cfg.script.sig.placeDetail /\ cfg.script.sig.hasResults
        /\ ~cfg.script.sig.badQuery /\ ~cfg.script.sig.noResults
        /\ ~cfg.script.timedOut
        /\ loop[s].polls = cfg.script.quiet

\* no poll inside the window finds a signal
QuietScript == cfg.script.timedOut \/ cfg.script.sig = NoSignal
NoOutcomeThrown(s) == loop[s].pc = "thrown" /\ loop[s].reason = "NoOutcome"

EndedWithoutResults(s) ==
    loop[s].pc = "returned" /\ loop[s].reason \in {"BadQuery", "NoResults"}
\* the session returned from the polls, not by an error, and never scrolled
EndedQuietly(s) ==
    /\ loop[s].pc = "returned"
    /\ pageStats[s].pageNum = 1
    /\ loop[s].numberOfEmptyScrolls = 0
\* nothing was enqueued or pushed for the session, and nothing is under way
NothingGathered(s) ==
    /\ RequestsOf(SearchKey(s)) = {}
    /\ Unsettled(s) = {}
    /\ tracker.enqueuedPerSearch[SearchKey(s)] = 0
    /\ pageStats[s].totalEnqueued = 0 /\ pageStats[s].totalPushed = 0
    /\ dataset = <<>>

\* C20: a session whose outcome is a bad query or no results returns without
\* an error and without a scroll, and no Record is enqueued or pushed for it.
C20_BadQueryAndNoResultsGatherNothing ==
    \A s \in Sessions : EndedWithoutResults(s) => EndedQuietly(s) /\ NothingGathered(s)

\* the part about the end of the session alone
EndsQuietlyWithoutResults ==
    \A s \in Sessions : EndedWithoutResults(s) => EndedQuietly(s)

\* session s ends its wait for the single place
EndsSingleWait(s) == loop[s].pc = "single" /\ loop'[s] # loop[s]
SinglePlaceReturned(s) == loop[s].pc = "returned" /\ loop[s].reason = "SinglePlace"

\* C21: a session that found the single place page returns only when a Record
\* has been counted (totalFound > 0); when its wait ends without one it throws;
\* either way it never scrolls.
C21_SinglePlaceReturnsOnlyWithRecord ==
    /\ [](\A s \in Sessions :
            /\ SinglePlaceReturned(s) => pageStats[s].totalFound > 0
            /\ (loop[s].pc = "single" \/ loop[s].reason \in {"SinglePlace", "SinglePlaceTimeout"})
                 => pageStats[s].pageNum = 1 /\ loop[s].numberOfEmptyScrolls = 0)
    /\ [][\A s \in Sessions : EndsSingleWait(s) =>
            IF pageStats[s].totalFound > 0
            THEN SinglePlaceReturned(s)'
            ELSE loop'[s].pc = "thrown" /\ loop'[s].reason = "SinglePlaceTimeout"]_vars

\* the session returned with the Record of the preview response counted
C21_Witness ==
    \E s \in Sessions :
        /\ SinglePlaceReturned(s)
        /\ pageStats[s].totalFound = 1
        /\ cfg.script.sig.placeDetail

(***************************************************************************)
(* Claims about the ends of a session                                      *)
(***************************************************************************)
GracefulReasons == {"BadQuery", "NoResults", "EndOfResults", "EmptyScrollLimitExceeded",
                    "ZoomDriftExceeded", "BudgetExhausted", "NoNewResultsOnStep"}
FailureReasons == {"NoOutcome", "DecodeError"}
\* the ends of the code that the two lists leave out
OtherReturns == {"MaxPlacesPerPage", "SinglePlace", "DomFallback"}
OtherThrows == {"SinglePlaceTimeout"}

Iterates(s) == loop[s].pc = "top" /\ loop'[s] # loop[s]
\* the iteration extracts the places from the DOM
FallbackDue(s) == pageStats[s].pageNum > 2 /\ pageStats[s].totalFound = 0
\* session s switches to the DOM fallback
Switches(s) == ~loop[s].useDOMFallback /\ loop'[s].useDOMFallback

\* the first half of C23: the switch happens at an iteration with pageNum > 2
\* and totalFound = 0 only
SwitchOnlyWhenDue ==
    [][\A s \in Sessions : Switches(s) => Iterates(s) /\ FallbackDue(s)]_vars

\* C23: the session switches to the DOM fallback only at an iteration with
\* pageNum > 2 and totalFound = 0, and every iteration after the switch
\* extracts from the DOM again.
C23_FallbackForTheRestOfTheSession ==
    [][\A s \in Sessions :
         /\ Switches(s) => Iterates(s) /\ FallbackDue(s)
         /\ (Iterates(s) /\ loop[s].useDOMFallback) => FallbackDue(s)]_vars

\* the addRequest of a DOM candidate of session s resolves
DomResolves(s) == loop[s].pc = "dom" /\ loop'[s] # loop[s]
DomKey(s) == loop[s].domPlaces[loop[s].domIndex]
One(b) == IF b THEN 1 ELSE 0

\* C24: on the fallback path every candidate takes one reservation, enqueued
\* grows only when the queue reports the key as new, and a duplicate report
\* gives the reservation back: over the step that resolves a candidate the
\* tracker changes by the reservation of the next candidate less the one
\* given back.
C24_FallbackReleasesDuplicates ==
    [][\A s \in Sessions : DomResolves(s) =>
         LET duplicate == DomKey(s) \in DOMAIN requestQueue
             key == SearchKey(s)
             change == One(loop'[s].pc = "dom") - One(duplicate)
         IN  /\ DomKey(s) \in DOMAIN requestQueue'
             /\ pageStats'[s].enqueued = pageStats[s].enqueued + One(~duplicate)
             /\ pageStats'[s].totalEnqueued = pageStats[s].totalEnqueued + One(~duplicate)
             /\ tracker'.enqueuedTotal = tracker.enqueuedTotal + change
             /\ tracker'.enqueuedPerSearch[key] = tracker.enqueuedPerSearch[key] + change]_vars

\* the parts of C24 that do not depend on the release
FallbackCountsNewOnly ==
    [][\A s \in Sessions : DomResolves(s) =>
         LET duplicate == DomKey(s) \in DOMAIN requestQueue
         IN  /\ DomKey(s) \in DOMAIN requestQueue'
             /\ pageStats'[s].enqueued = pageStats[s].enqueued + One(~duplicate)
             /\ ~duplicate => tracker'.enqueuedTotal =
                                tracker.enqueuedTotal + One(loop'[s].pc = "dom")]_vars

\* the structural search of a SearchPage decode of the body: whether the
\* decoder got as far as the search, the payload searched and the candidates
StructuralSearch(body) ==
    LET jsonString == cleanGoogleResponse(body)
        parsed == ParseBody(jsonString)
        payload == LocatePayload(parsed.jsonObject)
        data == payload.data
        d210 == Get(Get(Get(data, 2), 1), 0)
        ads == IF Truthy(Get(data, 2)) /\ Truthy(Get(Get(data, 2), 1)) /\ Truthy(d210)
               THEN d210 ELSE JArr(0, <<>>)
        ran == /\ jsonString # <<>>
               /\ ~StartsWithHtml(jsonString)
               /\ parsed.ok
               /\ parsed.jsonObject.t # "null"
               /\ payload.ok
               /\ data.t # "null"
               /\ IsArray(ads)
               /\ ~ParseAds(ads, 0, <<>>).thrown
    IN  IF ran THEN [ran |-> TRUE, data |-> data,
                     found |-> collectPlacesRecursively(data, 0)]
        ELSE [ran |-> FALSE]

FoundNone == /\ Decoded
             /\ dKind = "SearchPage"
             /\ StructuralSearch(dBody).ran
             /\ StructuralSearch(dBody).found = <<>>

\* C25: a SearchPage decode whose structural search finds no candidate
\* returns error null and no organic Record, for a short metadata payload
\* and for any other payload alike.
C25_NoCandidatesIsSuccess ==
    FoundNone =>
        /\ Result.error = NoError
        /\ \A i \in 1..Len(Places) : Places[i].isAdvertisement
        /\ Result.skippedMeta = 0

\* the search found nothing in a payload that is not a short metadata frame
C25_Witness ==
    /\ FoundNone
    /\ ~isShortMetadata(StructuralSearch(dBody).data)
    /\ Result.error = NoError

\* the same with a short metadata frame
FoundNoneInShortFrame ==
    /\ FoundNone
    /\ isShortMetadata(StructuralSearch(dBody).data)
    /\ Length(StructuralSearch(dBody).data) > 0

\* the candidates of the structural search of the decoded SearchPage body
Candidates == StructuralSearch(dBody).found
CandidateId(i) == parseJsonResult(Candidates[i], FALSE).placeId
Idless == {i \in 1..Len(Candidates) : ~Truthy(CandidateId(i))}
FoundSome == /\ Decoded
             /\ dKind = "SearchPage"
             /\ StructuralSearch(dBody).ran
             /\ Candidates # <<>>

\* C26 as stated: every Record of a decode output has an id.
C26_EveryRecordHasAnId ==
    Decoded => \A i \in 1..Len(Places) : Truthy(Places[i].placeId)

\* C26 amended: a candidate of the structural search without an id is
\* dropped, counted in skippedMeta and is no error, the candidates after it
\* are still decoded, and every Record that is not an advertisement has an id.
C26_IdlessCandidatesDroppedAndCounted ==
    FoundSome =>
        /\ Result.error = NoError
        /\ Result.skippedMeta = Cardinality(Idless)
        /\ \A i \in 1..Len(Places) :
             Places[i].isAdvertisement \/ Truthy(Places[i].placeId)
        /\ \A i \in 1..Len(Candidates) :
             i \notin Idless =>
                \E j \in 1..Len(Places) :
                   /\ ~Places[j].isAdvertisement
                   /\ Places[j].placeId = CandidateId(i)

\* a candidate without an id is followed by one with an id
C26_Witness ==
    /\ FoundSome
    /\ \E i \in Idless : \E k \in 1..Len(Candidates) : k > i /\ k \notin Idless
    /\ Result.skippedMeta > 0
    /\ Places # <<>>

\* where Records without an id come from
IdlessRecordIsAdOrPreview ==
    Decoded =>
        \A i \in 1..Len(Places) :
           Truthy(Places[i].placeId) \/ Places[i].isAdvertisement
              \/ dKind = "DetailPreview"
IdlessAdvertisement ==
    /\ Decoded
    /\ \E i \in 1..Len(Places) : Places[i].isAdvertisement /\ ~Truthy(Places[i].placeId)
IdlessPreview ==
    /\ Decoded
    /\ dKind = "DetailPreview"
    /\ \E i \in 1..Len(Places) : ~Truthy(Places[i].placeId)

(***************************************************************************)
(* SpecStops: one session whose page follows a script.  The end-of-list    *)
(* marker is on the page from scroll step endAt on, the map is zoomed out  *)
(* to checks.zoom from step zoomAt on (0: never).                          *)
(***************************************************************************)
StopsCfg(endAt, zoomAt, bound, limit, cap) ==
    [BaseCfg EXCEPT
       !.geolocation = Geolocation,
       !.maxCrawledPlaces = limit,
       !.maxAutomaticZoomOut = bound,
       !.maxPlacesPerPage = cap,
       !.maxResponses = 2,
       !.maxPageNum = 3,
       !.checks = [endAt |-> endAt, zoomAt |-> zoomAt, zoom |-> 13],
       !.responses = << Response("search", SearchBody(<<PA, PC, PB>>), 1),
                        Response("rpc", SearchBody(<<PB, PA>>), 2),
                        Response("search", JunkBody, 2) >> ]

\* a long session that decodes nothing
LongStopsCfg(endAt, zoomAt) ==
    [BaseCfg EXCEPT
       !.maxResponses = 1,
       !.maxPageNum = LongPageNum,
       !.maxAutomaticZoomOut = ZoomLimit(1),
       !.checks = [endAt |-> endAt, zoomAt |-> zoomAt, zoom |-> 13],
       !.responses = << Response("search", JunkBody, 1),
                        Response("search", SearchBody(<<PA, PB>>), 1) >> ]

ZoomBounds == {NoZoomLimit, ZoomLimit(1), ZoomLimit(2)}

\* what the page shows at the pass over the stop conditions
ObservedEnd(s) ==
    cfg.checks.endAt > 0 /\ pageStats[s].pageNum >= cfg.checks.endAt
ObservedZoom(s) ==
    IF cfg.checks.zoomAt > 0 /\ pageStats[s].pageNum >= cfg.checks.zoomAt
    THEN cfg.checks.zoom ELSE loop[s].startZoom

ScriptedCheck(s) == StopCheckWith(s, ObservedEnd(s), ObservedZoom(s))

InitStops ==
    /\ cfg \in {StopsCfg(endAt, zoomAt, bound, limit, cap) :
                  endAt \in {0, 2}, zoomAt \in {0, 2}, bound \in ZoomBounds,
                  limit \in {-1, 2}, cap \in {3, 120}}
              \cup {LongStopsCfg(endAt, zoomAt) :
                      endAt \in {0, EmptyScrollLimit},
                      zoomAt \in {0, EmptyScrollLimit}}
    /\ CrawlInit
    /\ DecoderIdle

NextStops ==
    \/ \E s \in Sessions : StartSearch(s)
    \/ \E s \in Sessions : AwaitOutcome(s)
    \/ \E s \in Sessions : LoopTop(s)
    \/ \E s \in Sessions : ScriptedCheck(s)
    \/ \E s \in Sessions : Scroll(s)
    \/ \E hid \in Handlers, s \in Sessions : HandleResponse(hid, s)
    \/ \E hid \in Handlers : HandleBody(hid)
    \/ \E hid \in Handlers : AddRequestResolved(hid)

SpecStops == InitStops /\ [][NextStops]_vars

\* the stop conditions of the pass of session s, in the order of the list
EmptiesAtCheck(s) ==
    IF loop[s].lastNumberOfResultsLoadedTotally = pageStats[s].totalFound
    THEN loop[s].numberOfEmptyScrolls + 1 ELSE 0
ZoomDrift(s) == loop[s].startZoom - ObservedZoom(s)
StopConditions(s) ==
    << ObservedEnd(s),
       EmptiesAtCheck(s) >= EmptyScrollLimit,
       pageStats[s].error # NoError,
       ~canEnqueueMore(tracker, SearchKey(s)),
       cfg.maxAutomaticZoomOut.isNumber /\ ZoomDrift(s) > cfg.maxAutomaticZoomOut.value,
       pageStats[s].totalFound >= cfg.maxPlacesPerPage,
       pageStats[s].found > 0 /\ pageStats[s].enqueued + pageStats[s].pushed = 0 >>
StopOutcomes ==
    << "EndOfResults", "EmptyScrollLimitExceeded", "DecodeError", "BudgetExhausted",
       "ZoomDriftExceeded", "MaxPlacesPerPage", "NoNewResultsOnStep" >>
Holding(s) == {i \in 1..Len(StopOutcomes) : StopConditions(s)[i]}
FirstHolding(s) == CHOOSE i \in Holding(s) : \A j \in Holding(s) : i <= j

\* C27: a pass over the stop conditions ends the session with the outcome of
\* the first condition of the list that holds, and goes on to the scroll
\* action only when none holds; pageNum grows by one, only at the scroll
\* action, which only follows such a pass.
C27_FirstStopConditionDecides ==
    [][\A s \in Sessions :
         /\ ChecksStop(s) =>
              IF Holding(s) = {}
              THEN /\ loop'[s].pc = "scroll"
                   /\ pageStats'[s].pageNum = pageStats[s].pageNum
              ELSE /\ Ended(s)'
                   /\ loop'[s].reason = StopOutcomes[FirstHolding(s)]
         /\ (loop'[s].pc = "scroll" /\ loop[s].pc # "scroll") => ChecksStop(s)
         /\ pageStats'[s].pageNum # pageStats[s].pageNum =>
              /\ loop[s].pc = "scroll"
              /\ pageStats'[s].pageNum = pageStats[s].pageNum + 1]_vars

\* a pass at which a later condition held as well
C27_Witness ==
    /\ loop[1].pc = "check"
    /\ Holding(1) # {}
    /\ FirstHolding(1) = 5
    /\ 6 \in Holding(1)

\* the responses of session s completely processed during scroll step p
BatchesOfStep(s, p) == {n \in 1..Len(completed[s]) : completed[s][n][1] = p}
RECURSIVE SumField(_, _, _)
SumField(s, ns, f) ==
    IF ns = {} THEN 0
    ELSE LET n == CHOOSE m \in ns : TRUE
         IN  completed[s][n][f] + SumField(s, ns \ {n}, f)
\* the Records the current step decoded, and those of them newly enqueued or pushed
StepFound(s) == SumField(s, BatchesOfStep(s, pageStats[s].pageNum), 2)
StepNew(s) == SumField(s, BatchesOfStep(s, pageStats[s].pageNum), 3)
StepWithoutNew(s) == StepFound(s) > 0 /\ StepNew(s) = 0
FiresNoNewResults(s) ==
    ChecksStop(s) /\ loop'[s].reason = "NoNewResultsOnStep"

\* C28: the no-new-results stop fires only at a pass whose scroll step decoded
\* at least one Record and enqueued or pushed none of the step's Records, and
\* no pass goes on to scroll after such a step, however many responses the
\* step handled and in whatever order.
C28_NoNewResultsJudgesTheStep ==
    [][\A s \in Sessions :
         /\ FiresNoNewResults(s) => StepWithoutNew(s)
         /\ (ChecksStop(s) /\ loop'[s].pc = "scroll") => ~StepWithoutNew(s)]_vars

\* what the pass tests: the counts of the response processed last
LastBatch(s) == completed[s][Len(completed[s])]
LastWithoutNew(s) ==
    /\ completed[s] # <<>>
    /\ LastBatch(s)[2] > 0
    /\ LastBatch(s)[3] = 0
NoNewResultsJudgesLastResponse ==
    [][\A s \in Sessions :
         /\ FiresNoNewResults(s) => LastWithoutNew(s)
         /\ (ChecksStop(s) /\ loop'[s].pc = "scroll") => ~LastWithoutNew(s)]_vars

\* the first pass of a session: all Records so far are Records of the step
FirstPassJudgesTheStep ==
    [][\A s \in Sessions :
         (FiresNoNewResults(s) /\ pageStats[s].pageNum = 1) =>
             pageStats[s].totalEnqueued + pageStats[s].totalPushed = 0]_vars

\* session s ends its pass over the stop conditions by the end-of-list marker
EndsByMarker(s) == ChecksStop(s) /\ loop'[s].reason = "EndOfResults"
\* a pass that goes on to the counter of the empty scrolls
CountsScroll(s) == ChecksStop(s) /\ ~EndsByMarker(s)

\* C29: numberOfEmptyScrolls counts the passes in a row that found
\* totalFound as the pass before left it (0 before the first pass): a pass
\* adds one when totalFound is unchanged and resets to 0 when it changed,
\* nothing else touches the counter or the remembered totalFound, and the
\* session returns gracefully at the first pass where the counter reaches 10.
C29_EmptyScrollsCountUnchangedPasses ==
    [][\A s \in Sessions :
         LET l == loop[s]
             unchanged == pageStats[s].totalFound = l.lastNumberOfResultsLoadedTotally
         IN  /\ l.pc = "start" =>
                  l.numberOfEmptyScrolls = 0 /\ l.lastNumberOfResultsLoadedTotally = 0
             /\ CountsScroll(s) =>
                  /\ loop'[s].lastNumberOfResultsLoadedTotally = pageStats[s].totalFound
                  /\ loop'[s].numberOfEmptyScrolls =
                        IF unchanged THEN l.numberOfEmptyScrolls + 1 ELSE 0
                  /\ loop'[s].numberOfEmptyScrolls >= EmptyScrollLimit =>
                        /\ loop'[s].numberOfEmptyScrolls = EmptyScrollLimit
                        /\ loop'[s].pc = "returned"
                        /\ loop'[s].reason = "EmptyScrollLimitExceeded"
                  /\ loop'[s].reason = "EmptyScrollLimitExceeded" =>
                        loop'[s].numberOfEmptyScrolls = EmptyScrollLimit
             /\ ~CountsScroll(s) =>
                  /\ loop'[s].numberOfEmptyScrolls = l.numberOfEmptyScrolls
                  /\ loop'[s].lastNumberOfResultsLoadedTotally =
                        l.lastNumberOfResultsLoadedTotally
             /\ l.numberOfEmptyScrolls < EmptyScrollLimit \/ Ended(s)]_vars

\* the limit is reached after a reset
C29_Witness ==
    /\ loop[1].reason = "EmptyScrollLimitExceeded"
    /\ loop[1].numberOfEmptyScrolls = EmptyScrollLimit
    /\ pageStats[1].totalFound > 0
    /\ pageStats[1].pageNum > EmptyScrollLimit

\* a session that never decoded a Record has counted every pass
PassesDone(s) ==
    IF loop[s].pc \in {"top", "dom", "check"} THEN pageStats[s].pageNum - 1
    ELSE pageStats[s].pageNum
EmptySessionCountsEveryPass ==
    \A s \in cfg.sessions :
       (/\ pageStats[s].totalFound = 0
        /\ \/ loop[s].pc \in {"top", "dom", "check", "scroll"}
           \/ loop[s].reason \in {"EmptyScrollLimitExceeded", "DecodeError"})
          => loop[s].numberOfEmptyScrolls = PassesDone(s)

\* a condition tested before the zoom holds at the pass of session s
DecidedBeforeZoom(s) ==
    \/ ObservedEnd(s)
    \/ EmptiesAtCheck(s) >= EmptyScrollLimit
    \/ pageStats[s].error # NoError
    \/ ~canEnqueueMore(tracker, SearchKey(s))
EndsByZoom(s) == ChecksStop(s) /\ loop'[s].reason = "ZoomDriftExceeded"

\* C30: a pass that no earlier condition decides ends the session by the
\* zoom-drift stop if and only if maxAutomaticZoomOut is a number and the zoom
\* at the start less the zoom now is strictly greater than it; the stop is a
\* return, and without a configured number no pass ends by the zoom.
C30_ZoomDriftStopsOnlyBeyondTheBound ==
    [][\A s \in Sessions :
         ChecksStop(s) =>
            /\ EndsByZoom(s) <=>
                  /\ ~DecidedBeforeZoom(s)
                  /\ cfg.maxAutomaticZoomOut.isNumber
                  /\ loop[s].startZoom - ObservedZoom(s) > cfg.maxAutomaticZoomOut.value
            /\ EndsByZoom(s) => loop'[s].pc = "returned"
            /\ ~cfg.maxAutomaticZoomOut.isNumber =>
                  loop'[s].reason # "ZoomDriftExceeded"]_vars

\* the map has zoomed out by more than the bound and the session has returned
C30_Witness ==
    /\ loop[1].pc = "returned"
    /\ loop[1].reason = "ZoomDriftExceeded"
    /\ cfg.maxAutomaticZoomOut = ZoomLimit(1)
    /\ loop[1].startZoom - cfg.checks.zoom = 2

\* the map has zoomed out and the session scrolls on
ZoomedOutAt(s) ==
    /\ cfg.checks.zoomAt > 0
    /\ pageStats[s].pageNum >= cfg.checks.zoomAt
    /\ loop[s].pc = "scroll"
ScrollsOnAtTheBound ==
    ZoomedOutAt(1) /\ cfg.maxAutomaticZoomOut = ZoomLimit(2)
ScrollsOnWithoutBound ==
    ZoomedOutAt(1) /\ cfg.maxAutomaticZoomOut = NoZoomLimit

(***************************************************************************)
(* SpecOrder: two handlers decode and submit responses whose places lie at *)
(* different depths of the payload, without geofence and without limits.   *)
(***************************************************************************)
OrderCfg ==
    [BaseCfg EXCEPT
       !.handlers = {1, 2},
       !.maxResponses = 2,
       !.responses = << Response("search", SearchBody(<<PA, PC, PB>>), 1),
                        Response("search", SearchBody(<<Nest(PB, 2), PA, PC>>), 2),
                        Response("search", SearchBody(<<Wrap(PC), Nest(PA, 1), PC>>), 1),
                        Response("search", AdsBody(<<PC, PA0>>, <<Wrap(PB), PA>>), 2) >> ]

InitOrder ==
    /\ cfg = OrderCfg
    /\ pageStats = [s \in Sessions |-> InitPageStats]
    /\ loop = [s \in Sessions |-> IF s \in cfg.sessions THEN Scrolling(s)
                                   ELSE InitLoop(s, FALSE)]
    /\ handler = [h \in Handlers |-> IdleHandler]
    /\ tracker = [enqueuedTotal |-> 0, enqueuedPerSearch |-> [k \in SearchKeys |-> 0],
                  scrapedTotal |-> 0, scrapedPerSearch |-> [k \in SearchKeys |-> 0],
                  reachedLimit |-> FALSE]
    /\ requestQueue = [k \in {} |-> PreRequest]
    /\ placesCache = [k \in {} |-> NoCoords]
    /\ exportSeen = {}
    /\ dataset = <<>>
    /\ stats = 0
    /\ delivered = [s \in Sessions |-> 0]
    /\ completed = [s \in Sessions |-> <<>>]
    /\ DecoderIdle

NextOrder ==
    \/ \E hid \in Handlers, s \in Sessions : HandleResponse(hid, s)
    \/ \E hid \in Handlers : HandleBody(hid)
    \/ \E hid \in Handlers : AddRequestResolved(hid)

SpecOrder == InitOrder /\ [][NextOrder]_vars

\* the paths from a payload to its subtrees that are arrays
RECURSIVE Paths(_)
Paths(node) ==
    IF ~IsArray(node) THEN {}
    ELSE {<<>>} \cup UNION {{<<i>> \o q : q \in Paths(node.el[i])} :
                              i \in DOMAIN node.el}
RECURSIVE At(_, _)
At(node, path) == IF path = <<>> THEN node ELSE At(Get(node, Head(path)), Tail(path))

\* document order (pre-order): a subtree comes before its descendants and
\* before the subtrees of its later siblings
Before(p, q) ==
    LET n == IF Len(p) < Len(q) THEN Len(p) ELSE Len(q)
        differ == {k \in 1..n : p[k] # q[k]}
    IN  IF differ = {} THEN Len(p) < Len(q)
        ELSE LET k == CHOOSE d \in differ : \A e \in differ : d <= e
             IN  p[k] < q[k]

\* the advertisement entries of a payload
AdsOf(data) == Get(Get(Get(data, 2), 1), 0)
\* where a Record can come from: the subtrees with its id, among the
\* advertisement entries for an advertisement and among the subtrees with
\* the shape of a place otherwise
SourcesOf(data, place) ==
    IF place.isAdvertisement
    THEN {q \in Paths(AdsOf(data)) : Get(At(AdsOf(data), q), 78) = place.placeId}
    ELSE {q \in Paths(data) : /\ isPlaceDataCandidate(At(data, q))
                              /\ Get(At(data, q), 78) = place.placeId}
\* the first source of place comes before every source of other
ComesFirst(data, place, other) ==
    \E q \in SourcesOf(data, place) : \A r \in SourcesOf(data, other) : Before(q, r)

\* advertisements first, and each kind in the order of the document
InDocumentOrder(places, data) ==
    \A i, j \in 1..Len(places) :
       i < j =>
          /\ places[j].isAdvertisement => places[i].isAdvertisement
          /\ places[i].isAdvertisement = places[j].isAdvertisement
               => ComesFirst(data, places[i], places[j])

AtWork(h) == h.pc \notin {"idle", "text"}
PayloadOf(r) == StructuralSearch(cfg.responses[r].body).data
\* the offset of the first Record of the batch that has the key
FirstOffset(places, key) ==
    CHOOSE i \in 1..Len(places) :
       /\ KeyOf(places[i].placeId) = key
       /\ \A j \in 1..(i - 1) : KeyOf(places[j].placeId) # key
BatchOfResponse(r) ==
    parseSearchPlacesResponseBody(cfg.responses[r].body, FALSE).placesPaginationData

\* a batch is in document order, and two decodes of a response agree
DecodedInDocumentOrder ==
    /\ \A hid \in Handlers :
          AtWork(handler[hid]) =>
             InDocumentOrder(handler[hid].places, PayloadOf(handler[hid].resp))
    /\ \A h1, h2 \in Handlers :
          (AtWork(handler[h1]) /\ AtWork(handler[h2])
             /\ handler[h1].resp = handler[h2].resp)
             => handler[h1].places = handler[h2].places
\* the requests of one response are ranked in the order of its batch
RankedInBatchOrder ==
    \A k1, k2 \in DOMAIN requestQueue :
       (requestQueue[k1].resp > 0 /\ requestQueue[k1].resp = requestQueue[k2].resp) =>
          LET places == BatchOfResponse(requestQueue[k1].resp)
          IN  (FirstOffset(places, k1) < FirstOffset(places, k2))
                 <=> (requestQueue[k1].rank < requestQueue[k2].rank)
\* a handler goes through its batch from the first Record to the last
WorksInBatchOrder ==
    \A hid \in Handlers :
       (AtWork(handler[hid]) /\ AtWork(handler'[hid])) =>
          /\ handler'[hid].places = handler[hid].places
          /\ handler'[hid].index >= handler[hid].index
          /\ handler'[hid].pc = "addRequest" /\ handler'[hid] # handler[hid] =>
               handler'[hid].index > handler[hid].index

\* C31: the Records of a decode are in the document order of the payload
\* (pre-order, advertisements first), two decodes of the same body give the
\* same sequence, and the handler works through them and ranks them in that
\* order.
C31_RecordsKeepDocumentOrder ==
    /\ [](DecodedInDocumentOrder /\ RankedInBatchOrder)
    /\ [][WorksInBatchOrder]_vars

\* a place deeper in the tree precedes a shallower one later in the document,
\* and both are in the queue with ranks in that order
C31_Witness ==
    /\ "A" \in DOMAIN requestQueue
    /\ "B" \in DOMAIN requestQueue
    /\ requestQueue["A"].resp = 2
    /\ requestQueue["B"].resp = 2
    /\ requestQueue["B"].rank < requestQueue["A"].rank

(***************************************************************************)
(* SpecSearch: the structural search applied to payload trees that hold a  *)
(* subtree of each shape at each depth around the bound, bare or as the    *)
(* second element of a two-element list, with or without a place after it. *)
(***************************************************************************)
\* a place that holds another place
PNested == JArr(PlaceLen, (9 :> CoordsArr(10, 20) @@ 20 :> PB @@ 78 :> Id("A")))
\* the shortest array that is long enough for a place
PMinPlus == JArr(MinPlaceLength + 1, (9 :> CoordsArr(10, 20) @@ 49 :> Id("M")))
Shapes == <<PA, PShort, PMinPlus, PNoCoords, PCoords1, PCoords2, PNested, JNum(7)>>
\* the element before the subtree in its list
Firsts == <<JNull, JNum(0), JBool(FALSE), List(<<>>)>>

SearchTree(shape, first, depth, wrapped, followed) ==
    LET inner == IF wrapped THEN List(<<Firsts[first], Shapes[shape]>>)
                 ELSE Shapes[shape]
        nested == Nest(inner, depth)
    IN  IF followed THEN List(<<nested, PC>>) ELSE nested

InitSearch ==
    /\ cfg = DecodeCfg
    /\ CrawlInit
    /\ \E shape \in 1..Len(Shapes), first \in 1..Len(Firsts),
          depth \in 0..(MaxDepth + 1), wrapped \in BOOLEAN, followed \in BOOLEAN :
         dBody = <<TextOf(SearchTree(shape, first, depth, wrapped, followed))>>
    /\ dKind = "SearchPage"
    /\ dResult = <<>>
    /\ dInner = <<>>

\* the payload tree of the run
Tree == dBody[1].v

Search ==
    /\ dResult = <<>>
    /\ dResult' = <<collectPlacesRecursively(Tree, 0)>>
    /\ UNCHANGED <<cfg, dBody, dKind, dInner, crawlVars>>

NextSearch == Search

SpecSearch == InitSearch /\ [][NextSearch]_vars

Searched == dResult # <<>>
Reported == {dResult[1][i] : i \in 1..Len(dResult[1])}

\* an array of more than 50 elements whose slot 9 is an array of at least 2
PlaceShaped(x) ==
    /\ IsArray(x)
    /\ Length(x) > 50
    /\ IsArray(Get(x, 9))
    /\ Length(Get(x, 9)) >= 2
\* the subtree at path q is element 1 of a list that starts with null
InWrapper(tree, q) ==
    /\ q # <<>>
    /\ q[Len(q)] = 1
    /\ Get(At(tree, SubSeq(q, 1, Len(q) - 1)), 0) = JNull
\* the subtree at path q lies inside a place-shaped subtree
InsidePlace(tree, q) ==
    \E n \in 0..(Len(q) - 1) : PlaceShaped(At(tree, SubSeq(q, 1, n)))
\* the paths the claim has reported
DueCandidates(tree) ==
    {q \in Paths(tree) :
        /\ PlaceShaped(At(tree, q))
        /\ ~InsidePlace(tree, q)
        /\ \/ Len(q) <= 6
           \/ Len(q) = 7 /\ InWrapper(tree, q)}

\* C32: the structural search reports exactly the place-shaped subtrees (an
\* array of more than 50 elements whose slot 9 is an array of at least 2
\* elements) that lie at depth 6 or less, or are element 1 of a list at depth
\* 6 or less that starts with null, and that do not lie inside a place-shaped
\* subtree.
C32_ReportsExactlyThePlaceShapedSubtrees ==
    Searched => Reported = {At(Tree, q) : q \in DueCandidates(Tree)}

\* a place is reported through the wrapper just beyond the depth bound, and
\* the place it holds is not reported
C32_Witness ==
    /\ Searched
    /\ Reported = {PNested}
    /\ \E q \in Paths(Tree) : Len(q) = 7 /\ At(Tree, q) = PNested

\* a place-shaped subtree beyond the bound that is not reported
BeyondTheBound ==
    /\ Searched
    /\ Reported = {}
    /\ \E q \in Paths(Tree) : Len(q) = 7 /\ PlaceShaped(At(Tree, q))

(***************************************************************************)
(* SpecTerm: one session in its scrolling loop with a cap of two places    *)
(* per page; up to two responses of one place each arrive at any time.     *)
(* The model allows more scroll steps than ten per place of the cap.       *)
(* SpecTermLive: the loop goes on after each of its bounded waits.         *)
(***************************************************************************)
TermCfg ==
    [BaseCfg EXCEPT
       !.maxPlacesPerPage = 2,
       !.maxResponses = 2,
       !.maxPageNum = (EmptyScrollLimit * 2) + 2,
       !.endOfList = BOOLEAN,
       !.responses = << Response("search", SearchBody(<<PA>>), 1),
                        Response("search", SearchBody(<<PB>>), 2) >> ]

InitTerm ==
    /\ cfg = TermCfg
    /\ pageStats = [s \in Sessions |-> InitPageStats]
    /\ loop = [s \in Sessions |-> IF s \in cfg.sessions THEN Scrolling(s)
                                   ELSE InitLoop(s, FALSE)]
    /\ handler = [h \in Handlers |-> IdleHandler]
    /\ tracker = [enqueuedTotal |-> 0, enqueuedPerSearch |-> [k \in SearchKeys |-> 0],
                  scrapedTotal |-> 0, scrapedPerSearch |-> [k \in SearchKeys |-> 0],
                  reachedLimit |-> FALSE]
    /\ requestQueue = [k \in {} |-> PreRequest]
    /\ placesCache = [k \in {} |-> NoCoords]
    /\ exportSeen = {}
    /\ dataset = <<>>
    /\ stats = 0
    /\ delivered = [s \in Sessions |-> 0]
    /\ completed = [s \in Sessions |-> <<>>]
    /\ DecoderIdle

NextTerm ==
    \/ \E s \in Sessions : LoopTop(s)
    \/ \E s \in Sessions : StopCheck(s)
    \/ \E s \in Sessions : Scroll(s)
    \/ \E hid \in Handlers, s \in Sessions : HandleResponse(hid, s)
    \/ \E hid \in Handlers : HandleBody(hid)
    \/ \E hid \in Handlers : AddRequestResolved(hid)

SpecTerm == InitTerm /\ [][NextTerm]_vars

SpecTermLive ==
    /\ SpecTerm
    /\ \A s \in Sessions :
          WF_vars(LoopTop(s)) /\ WF_vars(StopCheck(s)) /\ WF_vars(Scroll(s))

\* the scroll steps a cap of the places per page allows: ten for each place
StepBound == EmptyScrollLimit * cfg.maxPlacesPerPage

\* C33: a session in its scrolling loop ends, whatever responses arrive and
\* whenever: no run of passes with unchanged totalFound lasts beyond the
\* tenth, totalFound at or above the cap ends the session at the next pass,
\* so the session never takes more scroll steps than ten per place of the cap.
C33_ScrollingTerminates ==
    /\ [](\A s \in cfg.sessions :
            /\ pageStats[s].pageNum <= StepBound
            /\ ~Ended(s) => loop[s].numberOfEmptyScrolls < EmptyScrollLimit
            /\ (pageStats[s].totalFound >= cfg.maxPlacesPerPage
                  /\ loop[s].lastNumberOfResultsLoadedTotally = pageStats[s].totalFound)
               => Ended(s))
    /\ <>Ended(1)

\* the longest session: the cap is reached at the last step the bound allows
C33_Witness ==
    /\ Ended(1)
    /\ pageStats[1].pageNum = StepBound
    /\ loop[1].reason = "MaxPlacesPerPage"

(***************************************************************************)
(* SpecStats: one session in its scrolling loop and two handlers.  In      *)
(* default mode the transport delivers a search response, one whose        *)
(* advertisement list breaks off after its first entry, one that is no     *)
(* JSON, and one of another url; awaited calls may throw, and the panel    *)
(* may hold place links for the DOM fallback.  In export mode two search   *)
(* responses overlap under a limit of two places.                          *)
(***************************************************************************)
\* a search response whose advertisement list ends with a null entry
BrokenAdsBody(adPlaces, places) ==
    <<TextOf(Envelope(JStr(<<Guard, Ws,
        TextOf(WithAds([i \in 1..(Len(adPlaces) + 1) |->
                          IF i <= Len(adPlaces) THEN Ad(adPlaces[i]) ELSE JNull],
                       List(places)))>>))),
      Comment>>

StatsCfg ==
    [BaseCfg EXCEPT
       !.handlers = {1, 2},
       !.geolocation = Geolocation,
       !.maxResponses = 3,
       !.maxPageNum = 4,
       !.endOfList = BOOLEAN,
       !.domPlaces = {<<>>, <<"A", "D">>},
       !.mayThrow = TRUE,
       !.responses = << Response("search", SearchBody(<<PA, PC, PB>>), 1),
                        Response("search", BrokenAdsBody(<<PA>>, <<PB>>), 2),
                        Response("rpc", JunkBody, 2),
                        Response("other", SearchBody(<<PB>>), 1) >> ]

StatsExportCfg ==
    [BaseCfg EXCEPT
       !.handlers = {1, 2},
       !.exportPlaceUrls = TRUE,
       !.maxCrawledPlaces = 2,
       !.maxResponses = 2,
       !.maxPageNum = 3,
       !.domPlaces = {<<>>, <<"A">>},
       !.mayThrow = TRUE,
       !.responses = << Response("search", SearchBody(<<PA, PB>>), 1),
                        Response("search", SearchBody(<<PB, PC>>), 2) >> ]

InitStats ==
    /\ cfg \in {StatsCfg, StatsExportCfg}
    /\ pageStats = [s \in Sessions |-> InitPageStats]
    /\ loop = [s \in Sessions |-> IF s \in cfg.sessions THEN Scrolling(s)
                                   ELSE InitLoop(s, FALSE)]
    /\ handler = [h \in Handlers |-> IdleHandler]
    /\ tracker = [enqueuedTotal |-> 0, enqueuedPerSearch |-> [k \in SearchKeys |-> 0],
                  scrapedTotal |-> 0, scrapedPerSearch |-> [k \in SearchKeys |-> 0],
                  reachedLimit |-> FALSE]
    /\ requestQueue = [k \in {} |-> PreRequest]
    /\ placesCache = [k \in {} |-> NoCoords]
    /\ exportSeen = {}
    /\ dataset = <<>>
    /\ stats = 0
    /\ delivered = [s \in Sessions |-> 0]
    /\ completed = [s \in Sessions |-> <<>>]
    /\ DecoderIdle

NextStats ==
    \/ \E hid \in Handlers, s \in Sessions : HandleResponse(hid, s)
    \/ \E hid \in Handlers : HandlerStep(hid)
    \/ \E s \in Sessions : LoopTop(s)
    \/ \E s \in Sessions : DomAddResolved(s)
    \/ \E s \in Sessions : StopCheck(s)
    \/ \E s \in Sessions : Scroll(s)

SpecStats == InitStats /\ [][NextStats]_vars

\* the step completes a response of session s
Completes(s) == Len(completed'[s]) = Len(completed[s]) + 1
\* the step is a DOM fallback addRequest of session s that added a request
DomAdds(s) ==
    /\ loop[s].pc = "dom"
    /\ loop'[s] # loop[s]
    /\ DOMAIN requestQueue' # DOMAIN requestQueue
\* the handler whose run ends in the step
Finishes(hid, s) ==
    /\ handler[hid].pc # "idle"
    /\ handler[hid].sess = s
    /\ handler'[hid].pc = "idle"

TotalsOf(ps) == <<ps.totalFound, ps.totalEnqueued, ps.totalPushed>>
PerBatch(ps) == <<ps.found, ps.enqueued, ps.pushed>>
LastCompleted(s) == completed[s][Len(completed[s])]

\* the step gives the statistics the values of the response it completes
CountsCompletedResponse(s) ==
    LET ps == pageStats[s]
        after == pageStats'[s]
    IN  \E hid \in cfg.handlers :
          /\ Finishes(hid, s)
          /\ after.found = Len(BatchOf(handler[hid]))
          /\ after.totalFound = ps.totalFound + after.found
          /\ after.totalEnqueued = ps.totalEnqueued + after.enqueued
          /\ after.totalPushed = ps.totalPushed + after.pushed
          /\ after.enqueued + after.pushed <= after.found
          /\ completed'[s][Len(completed'[s])] =
                <<ps.pageNum, after.found, after.enqueued + after.pushed>>

NeverDecrease(s) ==
    /\ pageStats'[s].totalFound >= pageStats[s].totalFound
    /\ pageStats'[s].totalEnqueued >= pageStats[s].totalEnqueued
    /\ pageStats'[s].totalPushed >= pageStats[s].totalPushed

\* the statistics change at the completion of a response and nowhere else
C34_StatsFollowCompletedResponses ==
    [][\A s \in cfg.sessions :
         /\ NeverDecrease(s)
         /\ IF Completes(s) THEN CountsCompletedResponse(s)
            ELSE /\ TotalsOf(pageStats'[s]) = TotalsOf(pageStats[s])
                 /\ PerBatch(pageStats'[s]) = PerBatch(pageStats[s])]_vars

\* C34: a completed response adds the length of its batch to totalFound and
\* its new requests and pushes to totalEnqueued and totalPushed, and sets
\* found, enqueued and pushed to its own values; the totals never decrease;
\* besides that the statistics change only when the DOM fallback adds a
\* request, which adds one to enqueued and to totalEnqueued.
C34_StatsChangeAtCompletionOrDomAdd ==
    [][\A s \in cfg.sessions :
         /\ NeverDecrease(s)
         /\ IF Completes(s) THEN CountsCompletedResponse(s)
            ELSE IF DomAdds(s)
            THEN /\ pageStats'[s].enqueued = pageStats[s].enqueued + 1
                 /\ pageStats'[s].totalEnqueued = pageStats[s].totalEnqueued + 1
                 /\ pageStats'[s].found = pageStats[s].found
                 /\ pageStats'[s].pushed = pageStats[s].pushed
                 /\ pageStats'[s].totalFound = pageStats[s].totalFound
                 /\ pageStats'[s].totalPushed = pageStats[s].totalPushed
            ELSE /\ TotalsOf(pageStats'[s]) = TotalsOf(pageStats[s])
                 /\ PerBatch(pageStats'[s]) = PerBatch(pageStats[s])]_vars

\* the second of two completed responses held a duplicate or an excluded
\* place, and a scroll step later its values are still in place
C34_Witness ==
    /\ Len(completed[1]) = 2
    /\ LastCompleted(1)[3] < LastCompleted(1)[2]
    /\ pageStats[1].pageNum > LastCompleted(1)[1]
    /\ pageStats[1].found = LastCompleted(1)[2]
    /\ pageStats[1].enqueued + pageStats[1].pushed = LastCompleted(1)[3]
    /\ pageStats[1].totalFound = completed[1][1][2] + completed[1][2][2]

\* the DOM fallback added a request after a response without places completed
DomAddAfterCompletion ==
    /\ completed[1] # <<>>
    /\ pageStats[1].enqueued > LastCompleted(1)[3]

\* what the decoder makes of the response handler h is about to read
DecodedBy(h) ==
    parseSearchPlacesResponseBody(cfg.responses[h.resp].body,
                                  cfg.responses[h.resp].url = "preview")

\* the step stores the error a decode reported
StoresDecodeError(s) ==
    \E hid \in cfg.handlers :
       /\ handler[hid].pc = "text"
       /\ handler[hid].sess = s
       /\ handler'[hid] # handler[hid]
       /\ DecodedBy(handler[hid]).error # NoError
       /\ pageStats'[s].error = DecodedBy(handler[hid]).error

\* the step stores the exception a handler caught
StoresException(s) ==
    \E hid \in cfg.handlers :
       /\ Finishes(hid, s)
       /\ ~Completes(s)
       /\ pageStats'[s].error = ErrUnexpected

\* a decode that reported an error: its Records are the batch the handler
\* goes on with or has counted
KeepsRecordsOfFailedDecode(s) ==
    \A hid \in cfg.handlers :
       (/\ handler[hid].pc = "text"
        /\ handler[hid].sess = s
        /\ handler'[hid] # handler[hid]
        /\ Completes(s) \/ handler'[hid].pc # "idle"
        /\ DecodedBy(handler[hid]).error # NoError)
       => LET places == DecodedBy(handler[hid]).placesPaginationData
          IN  IF Completes(s) THEN pageStats'[s].found = Len(places)
              ELSE handler'[hid].places = places

\* a pass over the stop conditions with the error set ends the session: by
\* one of the two conditions before the error test or by raising the error
RaisedAtTheCheck(s) ==
    (loop[s].pc = "check" /\ loop'[s] # loop[s])
    => IF pageStats[s].error # NoError
       THEN \/ loop'[s].pc = "thrown" /\ loop'[s].reason = "DecodeError"
            \/ /\ loop'[s].pc = "returned"
               /\ loop'[s].reason \in {"EndOfResults", "EmptyScrollLimitExceeded"}
       ELSE loop'[s].pc # "thrown"

\* C35: an error that is set stays set; the field changes only when a
\* decode reports an error or a handler catches an exception, so a later
\* successful decode leaves it alone; the Records a failed decode returns
\* are processed like any batch; and a pass over the stop conditions that
\* gets to the error test raises the error.
C35_ErrorStaysUntilRaised ==
    [][\A s \in cfg.sessions :
         /\ pageStats[s].error # NoError => pageStats'[s].error # NoError
         /\ pageStats'[s].error # pageStats[s].error
            => StoresDecodeError(s) \/ StoresException(s)
         /\ KeepsRecordsOfFailedDecode(s)
         /\ RaisedAtTheCheck(s)]_vars

\* the broken advertisement list was decoded first; its Record was enqueued,
\* a response decoded without error was completed after it, and the error
\* of the first was raised at the check that followed
C35_Witness ==
    /\ Len(completed[1]) = 2
    /\ completed[1][1][2] = 1 /\ completed[1][1][3] = 1
    /\ completed[1][2][2] = 3
    /\ pageStats[1].error = ErrParsing
    /\ loop[1].pc = "thrown"
    /\ loop[1].errorAtEnd = ErrParsing

\* the step ends the run of handler hid for session s by an exception
Catches(hid, s) == Finishes(hid, s) /\ ~Completes(s)

\* C36: an exception of an awaited call of the handler ends the handler with
\* the exception stored in the session's error field; the session's loop
\* goes on undisturbed, the statistics stay as they were whatever the batch
\* had enqueued or pushed already, and the tracker, the queue, the dataset
\* and the caches keep what the batch did to them.
C36_ExceptionsAreCapturedWithoutCounting ==
    [][\A s \in cfg.sessions, hid \in cfg.handlers :
         Catches(hid, s)
         => /\ pageStats'[s].error = ErrUnexpected
            /\ PerBatch(pageStats'[s]) = PerBatch(pageStats[s])
            /\ TotalsOf(pageStats'[s]) = TotalsOf(pageStats[s])
            /\ pageStats'[s].isDataPage /\ pageStats'[s].pageNum = pageStats[s].pageNum
            /\ handler'[hid] = IdleHandler
            /\ loop' = loop
            /\ tracker' = tracker
            /\ requestQueue' = requestQueue /\ dataset' = dataset
            /\ placesCache' = placesCache /\ exportSeen' = exportSeen]_vars

\* default mode: the only response was interrupted at its second addRequest;
\* the first request is in the queue and two reservations are held, but
\* nothing was counted
C36_Witness ==
    /\ ~cfg.exportPlaceUrls
    /\ pageStats[1].error = ErrUnexpected
    /\ delivered[1] = 1 /\ completed[1] = <<>>
    /\ \A hid \in Handlers : handler[hid].pc = "idle"
    /\ Cardinality(DOMAIN requestQueue) = 1
    /\ tracker.enqueuedTotal = 2
    /\ TotalsOf(pageStats[1]) = <<0, 0, 0>>
    /\ PerBatch(pageStats[1]) = <<0, 0, 0>>

\* export mode: the only response was interrupted at its pushData; the place
\* counts as scraped and as seen, but nothing was counted or pushed
InterruptedPush ==
    /\ cfg.exportPlaceUrls
    /\ pageStats[1].error = ErrUnexpected
    /\ delivered[1] = 1 /\ completed[1] = <<>>
    /\ \A hid \in Handlers : handler[hid].pc = "idle"
    /\ tracker.scrapedTotal = 1 /\ exportSeen # {} /\ dataset = <<>>
    /\ TotalsOf(pageStats[1]) = <<0, 0, 0>>

\* the step hands a response to session s
Delivers(s) == delivered'[s] = delivered[s] + 1

\* everything but the position of the loop and the transport's own count
SessionState(s) ==
    <<pageStats[s], tracker, requestQueue, placesCache, exportSeen, dataset, stats>>

\* the url of the response handler h works on matches no pattern
IsDroppedUrl(h) ==
    /\ \neg isSearchPage(cfg.responses[h.resp].url)
    /\ \neg isDetailPreviewPage(cfg.responses[h.resp].url)

\* the handler that takes up the response the step delivers
TakesUp(hid, s) ==
    /\ handler[hid].pc = "idle"
    /\ handler'[hid].pc = "text"
    /\ handler'[hid].sess = s

\* C37: a response is taken up by a handler only if its url is a search or a
\* detail-preview url; the delivery of any other response changes neither
\* the session's statistics, isDataPage and error, nor the tracker, the
\* caches, the queue or the dataset, and starts no handler.
C37_OtherResponsesChangeNothing ==
    /\ [](\A hid \in cfg.handlers :
            handler[hid].pc # "idle"
            => ~IsDroppedUrl(handler[hid]))
    /\ [][\A s \in cfg.sessions :
            Delivers(s)
            => \/ \E hid \in cfg.handlers :
                    /\ TakesUp(hid, s)
                    /\ pageStats'[s] = [pageStats[s] EXCEPT !.isDataPage = TRUE]
               \/ /\ handler' = handler
                  /\ SessionState(s)' = SessionState(s)
                  /\ loop' = loop]_vars

\* a response was delivered and dropped: the page is no data page and the
\* session state is the initial one
C37_Witness ==
    /\ ~cfg.exportPlaceUrls
    /\ delivered[1] = 2
    /\ ~pageStats[1].isDataPage
    /\ pageStats[1] = [InitPageStats EXCEPT !.pageNum = pageStats[1].pageNum]
    /\ requestQueue = [k \in {} |-> PreRequest]
    /\ tracker.enqueuedTotal = 0
    /\ \A hid \in Handlers : handler[hid].pc = "idle"

\* the handler is inside the loop over its batch
InBatch(h) == h.pc \notin {"idle", "text"}

\* no request of the queue was added by the DOM fallback
OnlyDecoder == \A k \in DOMAIN requestQueue : requestQueue[k].resp # 0

\* the counts of a response in progress or completed stay within its batch
WithinTheBatch ==
    /\ \A hid \in cfg.handlers :
          InBatch(handler[hid])
          => /\ handler[hid].enqueued + handler[hid].pushed <= handler[hid].index + 1
             /\ handler[hid].index + 1 <= Len(handler[hid].places)
             /\ ~cfg.exportPlaceUrls => handler[hid].pushed = 0
             /\ cfg.exportPlaceUrls => handler[hid].enqueued = 0
    /\ \A s \in cfg.sessions :
          \A i \in 1..Len(completed[s]) : completed[s][i][3] <= completed[s][i][2]

\* C38: a response enqueues and pushes no more than its batch holds, pushes
\* nothing in default mode and enqueues nothing in export mode; so the
\* session's pushed and totalPushed are 0 in default mode, and as long as
\* the DOM fallback has added no request, enqueued and totalEnqueued are 0
\* in export mode and totalEnqueued + totalPushed is at most totalFound.
C38_NewNeverExceedsFound ==
    /\ WithinTheBatch
    /\ \A s \in cfg.sessions :
          LET ps == pageStats[s]
          IN  /\ ~cfg.exportPlaceUrls
                 => ps.pushed = 0 /\ ps.totalPushed = 0 /\ dataset = <<>>
              /\ OnlyDecoder
                 => /\ ps.enqueued + ps.pushed <= ps.found
                    /\ ps.totalEnqueued + ps.totalPushed <= ps.totalFound
                    /\ cfg.exportPlaceUrls
                       => ps.enqueued = 0 /\ ps.totalEnqueued = 0

\* default mode: two responses were completed, requests were added, and a
\* duplicate or an excluded place keeps the sum below totalFound
C38_Witness ==
    /\ ~cfg.exportPlaceUrls
    /\ OnlyDecoder
    /\ Len(completed[1]) = 2
    /\ pageStats[1].totalEnqueued = Cardinality(DOMAIN requestQueue)
    /\ pageStats[1].totalEnqueued >= 2
    /\ pageStats[1].totalEnqueued < pageStats[1].totalFound

\* export mode: two responses were completed and both pushed
PushedWithinFound ==
    /\ cfg.exportPlaceUrls
    /\ OnlyDecoder
    /\ Len(completed[1]) = 2
    /\ pageStats[1].totalPushed = 2 /\ Len(dataset) = 2
    /\ pageStats[1].totalFound = 4

\* the DOM fallback contributes in either mode: enqueued without found
DomEnqueuesInExportMode ==
    /\ cfg.exportPlaceUrls
    /\ pageStats[1].enqueued = 1
    /\ pageStats[1].totalEnqueued > pageStats[1].totalFound

====
